---- MODULE Spec2Model ----
(***************************************************************************)
(* Persistence and resilience layer of the harvest monitoring system:      *)
(* SessionDAO (optimistic concurrency over the sessions table), the four   *)
(* batch DAOs (sensor, emissions, carbon stock, harvest loss), the retry   *)
(* and error-handling decorators, on top of an Oracle store.               *)
(*                                                                         *)
(* The store is modelled as Oracle behaves under READ COMMITTED: a SELECT  *)
(* sees committed rows only, an UPDATE or INSERT of a row another          *)
(* transaction has written and not yet committed blocks until that         *)
(* transaction ends and is then evaluated against the committed row, and   *)
(* releasing a pooled connection rolls back whatever was not committed.    *)
(***************************************************************************)
EXTENDS Integers, Sequences, FiniteSets, TLC

\* ------------------------------------------------------------------ bounds
MaxCalls == 4        \* DAO calls started in one behaviour
MaxFaults == 1       \* store errors injected in one behaviour
MaxBatch == 2        \* candidates in one batch payload
MaxSaves == 1        \* batch save calls started in one behaviour
MaxPolicyCalls == 1  \* classifier and policy calls started in one behaviour
MaxWraps == 1        \* calls of a with_retry wrapper started in one behaviour
MaxInits == 1        \* schema initializations started in one behaviour
MaxSimCalls == 2     \* calls on a simulated connector started in one behaviour
MaxJsonCalls == 3    \* JsonManager calls started in one behaviour
MaxRaceCalls == 2    \* calls started in one behaviour of a save and a transition
MaxHarvestSaves == 2 \* save_harvest_loss_data calls started in one behaviour
MaxConnectorCalls == 3  \* initialize and shutdown calls started in one behaviour

\* ------------------------------------------------------- program constants
max_attempts == 3    \* RetryPolicy.__init__ default
max_retries == 3     \* OracleConnector.__init__: retry max_attempts default
initial_delay == 1000  \* RetryPolicy.__init__ default 1.0 s, in milliseconds
backoff_factor == 2    \* RetryPolicy.__init__ default 2.0
max_delay == 30000     \* RetryPolicy.__init__ default 30.0 s, in milliseconds

Procs == {"p1", "p2"}          \* concurrent callers of the layer
Ids == {"s1", "s2"}            \* session identifiers
NoProc == "none"
Null == 0                      \* SQL NULL / Python None for a timestamp

\* update_status: valid_statuses
valid_statuses == {"active", "paused", "completed", "aborted"}
\* end_session: valid_statuses
end_valid_statuses == {"completed", "aborted"}
\* status arguments a caller may pass (one of them is not a status)
StatusArgs == valid_statuses \cup {"bogus"}

\* the absent row of the sessions table
NoRow == [status |-> "<none>", end_timestamp |-> Null, version |-> 0]

VARIABLES
    sessions,     \* committed rows of table sessions: Ids -> row or NoRow
    tables,       \* committed rows of the four record tables: kind -> Seq
    next_id,      \* identity column generators: kind -> next id
    lock,         \* row written by an open transaction: Ids -> proc or NoProc
    pc,           \* position of each caller inside the DAO method
    op,           \* the call each caller is in (or has last finished)
    cur,          \* locals of the call: row read, version read, batch built
    pending,      \* uncommitted write of the caller's connection
    result,       \* what the last call gave its caller
    attempt,      \* with_retry.wrapper: attempt
    invocations,  \* how often the decorated body was entered in this call
    clock,        \* datetime.now(), one tick per call
    faults,       \* store errors raised so far
    io,           \* statements the call has executed: inserts, commits
    wins,         \* (id, version read) of every transition that returned True
    conn,         \* pool connections of each call: held, acquired, released
    schema,       \* tables and indices that exist in the store
    connector,    \* OracleConnector: initialized, pool, simulated_mode
    json          \* JsonManager: the session files and current_session_id

vars == <<sessions, tables, next_id, lock, pc, op, cur, pending, result,
          attempt, invocations, clock, faults, io, wins, conn, schema, connector, json>>

Kinds == {"sensor", "emission", "carbon", "harvest"}
SessionOps == {"create_session", "update_status", "end_session"}
SaveOps == {"save_sensor_data", "save_emissions_data",
            "save_carbon_stock_data", "save_harvest_loss_data"}

\* ------------------------------------------------- results and exceptions
NoResult == [kind |-> "none", b |-> FALSE, n |-> 0, s |-> ""]
Pending == [kind |-> "pending", b |-> FALSE, n |-> 0, s |-> ""]
RetBool(b) == [kind |-> "bool", b |-> b, n |-> 0, s |-> ""]
RetInt(n) == [kind |-> "int", b |-> FALSE, n |-> n, s |-> ""]
RetStr(s) == [kind |-> "str", b |-> FALSE, n |-> 0, s |-> s]
RuntimeError == [kind |-> "RuntimeError", b |-> FALSE, n |-> 0, s |-> ""]

\* what one execution of a decorated body ends with
Return(v) == [kind |-> "return", value |-> v, recoverable |-> FALSE]
Raise(exc) == [kind |-> exc, value |-> NoResult, recoverable |-> FALSE]
RaiseOracle(rec) ==
    [kind |-> "cx_Oracle.Error", value |-> NoResult, recoverable |-> rec]

\* ------------------------------------------------------------ OracleError
\* "Códigos de erro por categoria"
CONNECTION_ERRORS == {3113, 3114, 12541, 12545, 12170, 12547}
RESOURCE_ERRORS == {30, 1033, 1034, 1089, 4031}
CONSTRAINT_ERRORS == {1, 2290, 2291, 2292, 2293}
UNIQUE_ERRORS == {1, 1400}
PERMISSION_ERRORS == {1031, 1017, 942}
TIMEOUT_ERRORS == {1013, 12535, 12609}

\* a recoverable list that also holds the unique-constraint codes
RECOVERABLE_ERRORS_with_unique ==
    CONNECTION_ERRORS \cup RESOURCE_ERRORS \cup TIMEOUT_ERRORS
        \cup UNIQUE_ERRORS

\* "Erros que podem ser recuperados com retry"
RECOVERABLE_ERRORS ==
    CONNECTION_ERRORS \cup RESOURCE_ERRORS \cup TIMEOUT_ERRORS

\* OracleError._classify: the flags of an error with this code
classify(code) ==
    [is_connection_error |-> code \in CONNECTION_ERRORS,
     is_resource_error |-> code \in RESOURCE_ERRORS,
     is_constraint_error |-> code \in CONSTRAINT_ERRORS,
     is_unique_error |-> code \in UNIQUE_ERRORS,
     is_permission_error |-> code \in PERMISSION_ERRORS,
     is_timeout_error |-> code \in TIMEOUT_ERRORS,
     is_recoverable |-> code \in RECOVERABLE_ERRORS]

\* OracleError._get_category, on the flags _classify has set
get_category(error) ==
    IF error.is_connection_error THEN "CONNECTION"
    ELSE IF error.is_resource_error THEN "RESOURCE"
    ELSE IF error.is_constraint_error THEN "CONSTRAINT"
    ELSE IF error.is_permission_error THEN "PERMISSION"
    ELSE IF error.is_timeout_error THEN "TIMEOUT"
    ELSE "UNKNOWN"

\* OracleError.to_dict: code, is_recoverable and category of the error
to_dict(code) ==
    [kind |-> "dict", b |-> classify(code).is_recoverable, n |-> code,
     s |-> get_category(classify(code))]

\* cx_Oracle.Error with this code, as with_retry sees it
OracleErrorOf(code) ==
    [kind |-> "cx_Oracle.Error", value |-> NoResult,
     recoverable |-> classify(code).is_recoverable]

\* the "except cx_Oracle.Error as e: raise RuntimeError(...) from e" clause
\* that closes the body of every DAO method
dao_except(outcome) ==
    IF outcome.kind = "cx_Oracle.Error"
    THEN [kind |-> "RuntimeError", value |-> NoResult, recoverable |-> FALSE]
    ELSE outcome

\* b ** n for n >= 0
RECURSIVE Pow(_, _)
Pow(b, n) == IF n = 0 THEN 1 ELSE b * Pow(b, n - 1)

\* min(a, b)
min(a, b) == IF a < b THEN a ELSE b

\* a delay whose jitter is applied before the cap and whose cap is missing
get_delay_uncapped(att, jitter) ==
    initial_delay * Pow(backoff_factor, att) * jitter

\* RetryPolicy.get_delay: delays are in milliseconds, the jitter drawn by
\* random.uniform(0.8, 1.2) is in thousandths, the result in microseconds
get_delay(att, jitter) ==
    min(initial_delay * Pow(backoff_factor, att), max_delay) * jitter

\* a policy that gives up one attempt early
should_retry_one_less(is_recoverable, att) ==
    IF att + 1 >= max_attempts THEN FALSE ELSE is_recoverable

\* a policy that does not look at the class of the error
should_retry_any_error(is_recoverable, att) ==
    att < max_attempts

\* a policy that allows one attempt more
should_retry_one_more(is_recoverable, att) ==
    IF att > max_attempts THEN FALSE ELSE is_recoverable

\* RetryPolicy.should_retry
should_retry(is_recoverable, att) ==
    IF att >= max_attempts THEN FALSE ELSE is_recoverable

\* a wrapper that also loops when the body returned False
with_retry_reinvokes_on_false(outcome, att) ==
    /\ att + 1 < max_attempts
    /\ \/ outcome.kind = "cx_Oracle.Error" /\ outcome.recoverable
       \/ outcome.kind = "return" /\ outcome.value = RetBool(FALSE)

\* with_retry.wrapper: does the loop enter the body again after this outcome
with_retry_reinvokes(outcome, att) ==
    /\ outcome.kind = "cx_Oracle.Error"
    /\ should_retry(outcome.recoverable, att + 1)

\* with_retry.wrapper: what leaves the wrapper when it does not loop
with_retry(outcome) ==
    IF outcome.kind = "cx_Oracle.Error" THEN Raise("RuntimeError") ELSE outcome

\* a wrapper that lets the exception of the body through as it is
with_error_handling_reraises(outcome) ==
    IF outcome.kind = "return" THEN outcome.value
    ELSE [RuntimeError EXCEPT !.kind = outcome.kind]

\* with_error_handling.wrapper: every exception becomes a RuntimeError
with_error_handling(outcome) ==
    IF outcome.kind = "return" THEN outcome.value ELSE RuntimeError

\* ---------------------------------------------------------- the SQL text
\* _queries['create']
create_query(ts) ==
    [status |-> "active", end_timestamp |-> Null, version |-> 1]

\* an UPDATE that sets version = version + 2
update_status_query_plus2(row, status, ts) ==
    [row EXCEPT !.status = status, !.version = @ + 2]

\* _queries['update_status'], SET clause
update_status_query(row, status, ts) ==
    [row EXCEPT !.status = status, !.version = @ + 1]

\* _queries['end_session'], SET clause
end_session_query(row, status, ts) ==
    [row EXCEPT !.end_timestamp = ts, !.status = status, !.version = @ + 1]

\* a WHERE clause without the version test
where_any_version(row, version) ==
    row # NoRow

\* WHERE session_id = :session_id AND version = :version, on the row of id
where_version(row, version) ==
    row # NoRow /\ row.version = version

\* an end_session without the already-ended test
already_ended_never(row) ==
    FALSE

\* end_session: "Verifica se já está encerrada"
already_ended(row) ==
    row.end_timestamp # Null \/ row.status \in {"completed", "aborted"}

\* a validate_session without the status test
validate_session_row_any_status(row) ==
    IF row = NoRow THEN FALSE
    ELSE IF row.end_timestamp # Null THEN FALSE
    ELSE TRUE

\* validate_session, on the dict get_session returned (NoRow for None)
validate_session_row(row) ==
    IF row = NoRow THEN FALSE
    ELSE IF row.status # "active" THEN FALSE
    ELSE IF row.end_timestamp # Null THEN FALSE
    ELSE TRUE

\* ------------------------------------------------------------ call state
NoPending == [kind |-> "none", row |-> NoRow, rows |-> <<>>]
NoConn == [held |-> 0, acquired |-> 0, released |-> 0, retries |-> 0]

\* get_connection: "connection = self.pool.acquire()" has succeeded
acquire(c) ==
    [c EXCEPT !.held = @ + 1, !.acquired = @ + 1, !.retries = 0]

\* a finally clause that forgets the connection
released_never(c) ==
    c

\* get_connection, finally: "if connection: self.pool.release(connection)"
released(c) ==
    IF c.held > 0
    THEN [c EXCEPT !.held = @ - 1, !.released = @ + 1]
    ELSE c

\* _initialize_schemas: the five tables, and the index of each record table
TableNames == {"sessions", "sensor_data", "ghg_emissions", "carbon_stocks",
               "harvest_losses"}
RecordTables == TableNames \ {"sessions"}

\* table_schemas['indices'] of the connector
ConnectorIndices ==
    <<"idx_sensor_session_time", "idx_emissions_session_cat",
      "idx_carbon_session_type", "idx_harvest_session_time">>

\* the elements of a sequence
Range(seq) == {seq[i] : i \in DOMAIN seq}

\* the store after OracleConnector.create_tables has built it
AllObjects == [tables |-> TableNames, indices |-> Range(ConnectorIndices)]

\* a session file that does not exist
NoFile == [status |-> "<none>", end_timestamp |-> Null]
None == "None"

\* JsonManager.__init__: empty directories, no current session
NoFiles == [files |-> [s \in Ids |-> NoFile], current_session_id |-> None]

\* a connector in non-simulated mode after a successful initialize: it is
\* marked initialized and holds a pool
LiveConnector ==
    [initialized |-> TRUE, pool |-> TRUE, simulated_mode |-> FALSE]
NoCur == [version |-> 0, batch |-> <<>>, record_id |-> 0, session_data |-> NoRow,
          checked |-> FALSE, raised |-> <<>>, todo |-> <<>>]
NoIo == [inserts |-> 0, commits |-> 0]
NoOp == [name |-> "none", sid |-> "s1", status |-> "active",
         dao |-> FALSE, payload |-> <<>>]

Init ==
    /\ sessions = [s \in Ids |-> NoRow]
    /\ tables = [k \in Kinds |-> <<>>]
    /\ next_id = [k \in Kinds |-> 1]
    /\ lock = [s \in Ids |-> NoProc]
    /\ pc = [p \in Procs |-> "idle"]
    /\ op = [p \in Procs |-> NoOp]
    /\ cur = [p \in Procs |-> NoCur]
    /\ pending = [p \in Procs |-> NoPending]
    /\ result = [p \in Procs |-> NoResult]
    /\ attempt = [p \in Procs |-> 0]
    /\ invocations = [p \in Procs |-> 0]
    /\ clock = 1
    /\ faults = 0
    /\ io = [p \in Procs |-> NoIo]
    /\ wins = <<>>
    /\ conn = [p \in Procs |-> NoConn]
    /\ schema = AllObjects
    /\ connector = LiveConnector
    /\ json = NoFiles

\* a pool that keeps the uncommitted work of a released connection
release_without_rollback(p) ==
    /\ lock' = [s \in Ids |-> IF lock[s] = p THEN NoProc ELSE lock[s]]
    /\ pending' = pending

\* OracleConnector.get_connection, finally: the connection goes back to the
\* pool, which rolls back what the block did not commit
release(p) ==
    /\ lock' = [s \in Ids |-> IF lock[s] = p THEN NoProc ELSE lock[s]]
    /\ pending' = [pending EXCEPT ![p] = NoPending]

\* "with self.connector.get_connection() as conn": the block is entered
get_connection(p) ==
    conn' = [conn EXCEPT ![p] = acquire(@)]

\* a block that is left without its finally clause
get_connection_exit_keeps(p) ==
    conn' = conn

\* the block entered earlier is left, by return or by exception
get_connection_exit(p) ==
    conn' = [conn EXCEPT ![p] = released(@)]

\* the block is entered and left within one step of the caller
get_connection_block(p) ==
    conn' = [conn EXCEPT ![p] = released(acquire(@))]

\* the decorated body of p's call ended with outcome: with_retry either
\* sleeps to enter it again or lets the outcome through to
\* with_error_handling
body_ends(p, outcome) ==
    IF with_retry_reinvokes(outcome, attempt[p])
    THEN /\ pc' = [pc EXCEPT ![p] = "sleep"]
         /\ attempt' = [attempt EXCEPT ![p] = @ + 1]
         /\ invocations' = invocations
         /\ result' = result
    ELSE /\ pc' = [pc EXCEPT ![p] = "idle"]
         /\ attempt' = attempt
         /\ invocations' = invocations
         /\ result' = [result EXCEPT
                          ![p] = with_error_handling(with_retry(outcome))]

\* get_session has with_error_handling only
unretried_ends(p, outcome) ==
    /\ pc' = [pc EXCEPT ![p] = "idle"]
    /\ result' = [result EXCEPT ![p] = with_error_handling(outcome)]
    /\ UNCHANGED <<attempt, invocations>>

\* SessionDAO.get_session: the committed row of id, NoRow for None
get_session(id) == sessions[id]

\* SessionDAO.validate_session
validate_session(id) == validate_session_row(get_session(id))

\* ------------------------------------------------------------- the calls
SessionCalls ==
    [name : {"create_session"}, sid : Ids, status : {"active"},
     dao : {FALSE}, payload : {<<>>}]
    \cup [name : {"update_status"}, sid : Ids, status : StatusArgs,
          dao : {FALSE}, payload : {<<>>}]
    \cup [name : {"end_session"}, sid : Ids,
          status : end_valid_statuses \cup {"active"},
          dao : {FALSE}, payload : {<<>>}]
    \cup [name : {"validate_session"}, sid : Ids, status : {"active"},
          dao : {FALSE}, payload : {<<>>}]

\* a caller enters a DAO method: the wrappers start with attempt = 0 and
\* enter the body
begin(p, o, limit) ==
    /\ pc[p] = "idle"
    /\ clock <= limit
    /\ clock' = clock + 1
    /\ op' = [op EXCEPT ![p] = o]
    /\ pc' = [pc EXCEPT ![p] = "entry"]
    /\ cur' = [cur EXCEPT ![p] = NoCur]
    /\ result' = [result EXCEPT ![p] = Pending]
    /\ attempt' = [attempt EXCEPT ![p] = 0]
    /\ invocations' = [invocations EXCEPT ![p] = 1]
    /\ io' = [io EXCEPT ![p] = NoIo]
    /\ conn' = [conn EXCEPT ![p] = NoConn]
    /\ UNCHANGED <<sessions, tables, next_id, lock, pending, faults, wins,
                   schema, connector, json>>

call_session(p) == \E o \in SessionCalls : begin(p, o, MaxCalls)

\* ------------------------------------------------- SessionDAO.create_session
\* body up to the existence check
create_session(p) ==
    /\ pc[p] = "entry"
    /\ op[p].name = "create_session"
    /\ IF get_session(op[p].sid) # NoRow
       THEN /\ body_ends(p, Raise("ValueError"))
            /\ release(p)
            /\ get_connection_block(p)
       ELSE /\ pc' = [pc EXCEPT ![p] = "write"]
            /\ get_connection(p)
            /\ UNCHANGED <<result, attempt, invocations, lock, pending>>
    /\ UNCHANGED <<sessions, tables, next_id, op, cur, clock, faults, io, wins,
                   schema, connector, json>>

\* an INSERT into a sessions table that has no primary key
create_session_insert_no_key(p) ==
    /\ pc[p] = "write"
    /\ op[p].name = "create_session"
    /\ pending' = [pending EXCEPT ![p] =
          [kind |-> "session", row |-> create_query(clock), rows |-> <<>>]]
    /\ pc' = [pc EXCEPT ![p] = "commit"]
    /\ io' = [io EXCEPT ![p].inserts = @ + 1]
    /\ UNCHANGED <<sessions, tables, next_id, lock, op, cur, result, attempt,
                   invocations, clock, faults, wins, conn, schema, connector, json>>

\* cursor.execute(_queries['create']): waits for a writer of the same key,
\* then ORA-00001 if the key is there, which the body turns into RuntimeError
create_session_insert(p) ==
    /\ pc[p] = "write"
    /\ op[p].name = "create_session"
    /\ lock[op[p].sid] = NoProc
    /\ IF sessions[op[p].sid] # NoRow
       THEN /\ body_ends(p, dao_except(OracleErrorOf(1)))
            /\ release(p)
            /\ get_connection_exit(p)
            /\ io' = io
       ELSE /\ pending' = [pending EXCEPT ![p] =
                  [kind |-> "session", row |-> create_query(clock),
                   rows |-> <<>>]]
            /\ lock' = [lock EXCEPT ![op[p].sid] = p]
            /\ pc' = [pc EXCEPT ![p] = "commit"]
            /\ io' = [io EXCEPT ![p].inserts = @ + 1]
            /\ UNCHANGED <<result, attempt, invocations, conn>>
    /\ UNCHANGED <<sessions, tables, next_id, op, cur, clock, faults, wins,
                   schema, connector, json>>

\* -------------------------------------------------- SessionDAO.update_status
\* body up to the read of the current version
update_status(p) ==
    /\ pc[p] = "entry"
    /\ op[p].name = "update_status"
    /\ IF op[p].status \notin valid_statuses
       THEN /\ body_ends(p, Raise("ValueError"))
            /\ cur' = cur
            /\ conn' = conn
       ELSE IF get_session(op[p].sid) = NoRow
       THEN /\ body_ends(p, Return(RetBool(FALSE)))
            /\ cur' = cur
            /\ get_connection_block(p)
       ELSE /\ cur' = [cur EXCEPT ![p].version = get_session(op[p].sid).version]
            /\ pc' = [pc EXCEPT ![p] = "write"]
            /\ get_connection(p)
            /\ UNCHANGED <<result, attempt, invocations>>
    /\ UNCHANGED <<sessions, tables, next_id, lock, pending, op, clock,
                   faults, io, wins, schema, connector, json>>

\* cursor.execute(_queries['update_status']) and the rowcount test
update_status_update(p) ==
    /\ pc[p] = "write"
    /\ op[p].name = "update_status"
    /\ lock[op[p].sid] = NoProc
    /\ IF where_version(sessions[op[p].sid], cur[p].version)
       THEN /\ pending' = [pending EXCEPT ![p] =
                  [kind |-> "session",
                   row |-> update_status_query(sessions[op[p].sid],
                                               op[p].status, clock),
                   rows |-> <<>>]]
            /\ lock' = [lock EXCEPT ![op[p].sid] = p]
            /\ pc' = [pc EXCEPT ![p] = "commit"]
            /\ UNCHANGED <<result, attempt, invocations, conn>>
       ELSE /\ body_ends(p, Return(RetBool(FALSE)))
            /\ release(p)
            /\ get_connection_exit(p)
    /\ UNCHANGED <<sessions, tables, next_id, op, cur, clock, faults, io, wins,
                   schema, connector, json>>

\* ---------------------------------------------------- SessionDAO.end_session
\* body up to the read of the current row and the already-ended test
end_session(p) ==
    /\ pc[p] = "entry"
    /\ op[p].name = "end_session"
    /\ IF op[p].status \notin end_valid_statuses
       THEN /\ body_ends(p, Raise("ValueError"))
            /\ cur' = cur
            /\ conn' = conn
       ELSE IF get_session(op[p].sid) = NoRow
       THEN /\ body_ends(p, Return(RetBool(FALSE)))
            /\ cur' = cur
            /\ get_connection_block(p)
       ELSE IF already_ended(get_session(op[p].sid))
       THEN /\ body_ends(p, Return(RetBool(FALSE)))
            /\ cur' = cur
            /\ get_connection_block(p)
       ELSE /\ cur' = [cur EXCEPT ![p].version = get_session(op[p].sid).version]
            /\ pc' = [pc EXCEPT ![p] = "write"]
            /\ get_connection(p)
            /\ UNCHANGED <<result, attempt, invocations>>
    /\ UNCHANGED <<sessions, tables, next_id, lock, pending, op, clock,
                   faults, io, wins, schema, connector, json>>

\* cursor.execute(_queries['end_session']) and the rowcount test
end_session_update(p) ==
    /\ pc[p] = "write"
    /\ op[p].name = "end_session"
    /\ lock[op[p].sid] = NoProc
    /\ IF where_version(sessions[op[p].sid], cur[p].version)
       THEN /\ pending' = [pending EXCEPT ![p] =
                  [kind |-> "session",
                   row |-> end_session_query(sessions[op[p].sid],
                                             op[p].status, clock),
                   rows |-> <<>>]]
            /\ lock' = [lock EXCEPT ![op[p].sid] = p]
            /\ pc' = [pc EXCEPT ![p] = "commit"]
            /\ UNCHANGED <<result, attempt, invocations, conn>>
       ELSE /\ body_ends(p, Return(RetBool(FALSE)))
            /\ release(p)
            /\ get_connection_exit(p)
    /\ UNCHANGED <<sessions, tables, next_id, op, cur, clock, faults, io, wins,
                   schema, connector, json>>

\* conn.commit() of a sessions write, and the return that follows it
commit_session(p) ==
    /\ pc[p] = "commit"
    /\ op[p].name \in SessionOps
    /\ sessions' = [sessions EXCEPT ![op[p].sid] = pending[p].row]
    /\ release(p)
    /\ io' = [io EXCEPT ![p].commits = @ + 1]
    /\ IF op[p].name = "create_session"
       THEN /\ body_ends(p, Return(RetStr(op[p].sid)))
            /\ wins' = wins
       ELSE /\ body_ends(p, Return(RetBool(TRUE)))
            /\ wins' = Append(wins, <<op[p].sid, cur[p].version>>)
    /\ get_connection_exit(p)
    /\ UNCHANGED <<tables, next_id, op, cur, clock, faults, schema, connector, json>>

\* SessionDAO.validate_session called on its own
validate_session_call(p) ==
    /\ pc[p] = "entry"
    /\ op[p].name = "validate_session"
    /\ unretried_ends(p, Return(RetBool(validate_session(op[p].sid))))
    /\ get_connection_block(p)
    /\ UNCHANGED <<sessions, tables, next_id, lock, pending, op, cur, clock,
                   faults, io, wins, schema, connector, json>>

\* does the body reach the store in its first step
touches_store_at_entry(o) ==
    CASE o.name = "create_session" -> TRUE
      [] o.name = "update_status" -> o.status \in valid_statuses
      [] o.name = "end_session" -> o.status \in end_valid_statuses
      [] o.name = "validate_session" -> TRUE
      [] OTHER -> o.dao

\* the error the store raises in the middle of an operation or of an
\* acquisition: ORA-03113, end-of-file on communication channel (the keys
\* and the foreign keys raise their own codes where they are tested)
StoreCodes == {3113}

\* the store raises cx_Oracle.Error inside the connection block: the
\* connection is released, the except clause of the body turns the error
\* into RuntimeError
store_error(p) ==
    /\ pc[p] \in {"entry", "write", "insert", "select_max", "commit"}
    /\ pc[p] = "entry" => touches_store_at_entry(op[p])
    /\ faults < MaxFaults
    /\ \E code \in StoreCodes :
          /\ faults' = faults + 1
          /\ IF op[p].name = "validate_session"
             THEN unretried_ends(p, dao_except(OracleErrorOf(code)))
             ELSE body_ends(p, dao_except(OracleErrorOf(code)))
    /\ release(p)
    /\ IF pc[p] \in {"entry", "insert"}
       THEN get_connection_block(p)
       ELSE get_connection_exit(p)
    /\ UNCHANGED <<sessions, tables, next_id, op, cur, clock, io, wins, schema, connector, json>>

\* errors pool.acquire() raises: a lost connection (recoverable) and
\* ORA-01031, insufficient privileges (not recoverable)
AcquireCodes == StoreCodes \cup {1031}

\* get_connection: "connection = self.pool.acquire()" raises cx_Oracle.Error;
\* the loop counts the retry and sleeps, or re-raises once retries exceeds
\* max_retries, whatever the code of the error
acquire_fails(p) ==
    /\ \/ pc[p] = "entry" /\ touches_store_at_entry(op[p])
       \/ pc[p] = "insert"
    /\ faults < MaxFaults
    /\ \E code \in AcquireCodes :
          /\ faults' = faults + 1
          /\ cur' = [cur EXCEPT ![p].raised = Append(@, code)]
          /\ IF conn[p].retries + 1 > max_retries
             THEN /\ IF op[p].name = "validate_session"
                     THEN unretried_ends(p, dao_except(OracleErrorOf(code)))
                     ELSE body_ends(p, dao_except(OracleErrorOf(code)))
                  /\ conn' = [conn EXCEPT ![p].retries = 0]
             ELSE /\ pc' = [pc EXCEPT ![p] = "acquire_sleep"]
                  /\ conn' = [conn EXCEPT ![p].retries = @ + 1]
                  /\ UNCHANGED <<result, attempt, invocations>>
    /\ UNCHANGED <<sessions, tables, next_id, lock, pending, op, clock,
                   io, wins, schema, connector, json>>

\* get_connection: time.sleep(delay) is over, the loop acquires again (the
\* insert block of a save comes after its session check, every other block
\* is the first thing the body does)
acquire_retry(p) ==
    /\ pc[p] = "acquire_sleep"
    /\ pc' = [pc EXCEPT ![p] = IF op[p].name \in SaveOps /\ cur[p].checked
                               THEN "insert" ELSE "entry"]
    /\ UNCHANGED <<sessions, tables, next_id, lock, pending, op, cur, result,
                   attempt, invocations, clock, faults, io, wins, conn,
                   schema, connector, json>>

Next ==
    \E p \in Procs :
        \/ call_session(p)
        \/ create_session(p)
        \/ create_session_insert(p)
        \/ update_status(p)
        \/ update_status_update(p)
        \/ end_session(p)
        \/ end_session_update(p)
        \/ commit_session(p)
        \/ validate_session_call(p)
        \/ store_error(p)

Spec == Init /\ [][Next]_vars

\* ------------------------------------------------------- the batch DAOs
\* Python values of a payload field, by type
Num(n) == [t |-> "num", n |-> n]
StrVal == [t |-> "str", n |-> 0]
NoneVal == [t |-> "none", n |-> 0]
DictVal == [t |-> "dict", n |-> 0]

\* isinstance(value, (int, float))
is_number(v) == v.t = "num"

\* EmissionsDAO.VALID_SCOPES, VALID_GASES
VALID_SCOPES == {1, 2, 3}
VALID_GASES == {"CO2", "CH4", "N2O", "CO2e"}
\* CarbonStockDAO.VALID_STOCK_TYPES, VALID_MEASUREMENT_METHODS
VALID_STOCK_TYPES == {"soil_organic_carbon", "above_ground_biomass",
                      "below_ground_biomass", "dead_organic_matter"}
VALID_MEASUREMENT_METHODS == {"direct_sampling", "remote_sensing",
                              "model_estimate", "default_factor"}
\* HarvestDAO.VALID_CONFIDENCE_LEVELS
VALID_CONFIDENCE_LEVELS == {"high", "medium", "low"}

\* the table a save method writes
kind_of(name) ==
    CASE name = "save_sensor_data" -> "sensor"
      [] name = "save_emissions_data" -> "emission"
      [] name = "save_carbon_stock_data" -> "carbon"
      [] OTHER -> "harvest"

\* save_sensor_data: the value of one reading, in either format
sensor_value(reading) ==
    IF reading.fmt = "full" THEN reading.value
    ELSE IF reading.fmt = "simple" THEN reading.value
    ELSE DictVal

\* a loop that appends every reading, numeric or not
sensor_batch_keeps_invalid(sid, payload) ==
    [i \in 1..Len(payload) |->
        [session_id |-> sid,
         sensor_value |-> sensor_value(payload[i]).n,
         quality_flag |-> "GOOD"]]

\* save_sensor_data: the loop that builds batch_data
sensor_batch(sid, payload) ==
    LET ok(r) == is_number(sensor_value(r))
        valid == SelectSeq(payload, ok)
    IN [i \in 1..Len(valid) |->
          [session_id |-> sid,
           sensor_value |-> sensor_value(valid[i]).n,
           quality_flag |-> IF valid[i].fmt = "full"
                            THEN valid[i].quality_flag ELSE "GOOD"]]

\* a validation that lets a negative value of any gas through
emission_kept_any_sign(c) ==
    /\ c.gas \in VALID_GASES
    /\ is_number(c.value)

\* _prepare_emission_records: is the gas entry kept
emission_kept(c) ==
    /\ c.gas \in VALID_GASES
    /\ is_number(c.value)
    /\ ~(c.value.n < 0 /\ c.gas # "CO2")

\* save_emissions_data: the scope loop with _prepare_emission_records
emissions_batch(sid, payload) ==
    LET ok(c) == c.scope \in VALID_SCOPES /\ emission_kept(c)
        valid == SelectSeq(payload, ok)
    IN [i \in 1..Len(valid) |->
          [session_id |-> sid,
           scope |-> valid[i].scope,
           category |-> IF valid[i].scope = 1 THEN valid[i].category ELSE "",
           gas |-> valid[i].gas,
           value |-> valid[i].value.n]]

\* save_carbon_stock_data: the amortization period that is stored
amortization_period(c) ==
    LET given == IF (/\ c.stock_type \in {"above_ground_biomass",
                                          "dead_organic_matter"}
                     /\ c.change_co2.n < 0
                     /\ c.cause = "combustion")
                 THEN Num(1) ELSE c.amortization_period
    IN IF is_number(given)
       THEN (IF given.n < 1 THEN 1 ELSE given.n)
       ELSE 20

\* save_carbon_stock_data: the loop that builds batch_data
carbon_batch(sid, payload) ==
    LET ok(c) == /\ c.stock_type \in VALID_STOCK_TYPES
                 /\ c.change_co2 # NoneVal
                 /\ is_number(c.change_co2)
        valid == SelectSeq(payload, ok)
    IN [i \in 1..Len(valid) |->
          [session_id |-> sid,
           stock_type |-> valid[i].stock_type,
           change |-> valid[i].change_co2.n,
           amortization_period |-> amortization_period(valid[i]),
           measurement_method |->
               IF valid[i].measurement_method \in VALID_MEASUREMENT_METHODS
               THEN valid[i].measurement_method ELSE "model_estimate"]]

\* save_harvest_loss_data: the tests that raise ValueError
harvest_rejected(payload) ==
    \/ payload = <<>>
    \/ payload[1].loss_estimate = NoneVal
    \/ ~is_number(payload[1].loss_estimate)
    \/ payload[1].loss_estimate.n < 0
    \/ payload[1].loss_estimate.n > 100

\* save_harvest_loss_data: the row that is inserted
harvest_batch(sid, payload) ==
    << [session_id |-> sid,
        loss_percent |-> payload[1].loss_estimate.n,
        confidence_level |->
            IF payload[1].confidence_level \in VALID_CONFIDENCE_LEVELS
            THEN payload[1].confidence_level ELSE "medium"] >>

\* a save method without the session check
session_check_never_fails(o) ==
    FALSE

\* "if self.session_dao and not self.session_dao.validate_session(...)"
session_check_fails(o) ==
    o.dao /\ ~validate_session(o.sid)

\* an "if not batch_data" that never takes the early return
nothing_to_insert_never(batch) ==
    FALSE

\* "if not batch_data: return 0"
nothing_to_insert(batch) ==
    batch = <<>>

\* ---------------------------------------------------- payloads of the calls
SensorReadings ==
    { [fmt |-> "simple", value |-> Num(25), quality_flag |-> "GOOD"],
      [fmt |-> "simple", value |-> StrVal, quality_flag |-> "GOOD"],
      [fmt |-> "full", value |-> Num(30), quality_flag |-> "SUSPECT"] }

EmissionEntries ==
    { [scope |-> 1, category |-> "fuel", gas |-> "CO2", value |-> Num(-5)],
      [scope |-> 2, category |-> "", gas |-> "CH4", value |-> Num(-1)],
      [scope |-> 4, category |-> "", gas |-> "N2O", value |-> Num(3)] }

CarbonEntries ==
    { [stock_type |-> "soil_organic_carbon", change_co2 |-> Num(150),
       amortization_period |-> NoneVal, cause |-> "",
       measurement_method |-> "model_estimate"],
      [stock_type |-> "above_ground_biomass", change_co2 |-> Num(-75),
       amortization_period |-> Num(0), cause |-> "combustion",
       measurement_method |-> "guess"],
      [stock_type |-> "soil_organic_carbon", change_co2 |-> NoneVal,
       amortization_period |-> Num(20), cause |-> "",
       measurement_method |-> "direct_sampling"] }

HarvestRecords ==
    { [loss_estimate |-> Num(50), confidence_level |-> "high"],
      [loss_estimate |-> Num(101), confidence_level |-> "low"],
      [loss_estimate |-> NoneVal, confidence_level |-> "sure"] }

\* sequences of at most n elements of S
SeqUpTo(S, n) == UNION { [1..k -> S] : k \in 0..n }

\* the session the saves of one behaviour are about
SaveIds == {"s1"}

SaveCalls ==
    [name : {"save_sensor_data"}, sid : SaveIds, status : {"active"},
     dao : BOOLEAN, payload : SeqUpTo(SensorReadings, MaxBatch)]
    \cup [name : {"save_emissions_data"}, sid : SaveIds, status : {"active"},
          dao : BOOLEAN, payload : SeqUpTo(EmissionEntries, MaxBatch)]
    \cup [name : {"save_carbon_stock_data"}, sid : SaveIds, status : {"active"},
          dao : BOOLEAN, payload : SeqUpTo(CarbonEntries, MaxBatch)]
    \cup [name : {"save_harvest_loss_data"}, sid : SaveIds, status : {"active"},
          dao : BOOLEAN, payload : SeqUpTo(HarvestRecords, 1)]

call_save(p) == \E o \in SaveCalls : begin(p, o, MaxSaves)

\* the body of a counting save method up to the connection block: session
\* check, empty payload, batch_data, empty batch_data
save_body(p, batch) ==
    /\ pc[p] = "entry"
    /\ IF session_check_fails(op[p])
       THEN /\ body_ends(p, Raise("ValueError"))
            /\ cur' = [cur EXCEPT ![p].session_data = get_session(op[p].sid),
                                  ![p].checked = TRUE]
       ELSE IF op[p].payload = <<>> \/ nothing_to_insert(batch)
       THEN /\ body_ends(p, Return(RetInt(0)))
            /\ cur' = [cur EXCEPT ![p].session_data = get_session(op[p].sid),
                                  ![p].checked = TRUE]
       ELSE /\ cur' = [cur EXCEPT ![p].session_data = get_session(op[p].sid),
                                  ![p].checked = TRUE,
                                  ![p].batch = batch]
            /\ pc' = [pc EXCEPT ![p] = "insert"]
            /\ UNCHANGED <<result, attempt, invocations>>
    /\ IF op[p].dao THEN get_connection_block(p) ELSE conn' = conn
    /\ UNCHANGED <<sessions, tables, next_id, lock, pending, op, clock,
                   faults, io, wins, schema, connector, json>>

\* SensorDAO.save_sensor_data
save_sensor_data(p) ==
    /\ op[p].name = "save_sensor_data"
    /\ save_body(p, sensor_batch(op[p].sid, op[p].payload))

\* EmissionsDAO.save_emissions_data
save_emissions_data(p) ==
    /\ op[p].name = "save_emissions_data"
    /\ save_body(p, emissions_batch(op[p].sid, op[p].payload))

\* CarbonStockDAO.save_carbon_stock_data
save_carbon_stock_data(p) ==
    /\ op[p].name = "save_carbon_stock_data"
    /\ save_body(p, carbon_batch(op[p].sid, op[p].payload))

\* HarvestDAO.save_harvest_loss_data up to the connection block
save_harvest_loss_data(p) ==
    /\ pc[p] = "entry"
    /\ op[p].name = "save_harvest_loss_data"
    /\ IF session_check_fails(op[p]) \/ harvest_rejected(op[p].payload)
       THEN /\ body_ends(p, Raise("ValueError"))
            /\ cur' = [cur EXCEPT ![p].session_data = get_session(op[p].sid),
                                  ![p].checked = TRUE]
       ELSE /\ cur' = [cur EXCEPT ![p].session_data = get_session(op[p].sid),
                                  ![p].checked = TRUE,
                                  ![p].batch =
                                      harvest_batch(op[p].sid, op[p].payload)]
            /\ pc' = [pc EXCEPT ![p] = "insert"]
            /\ UNCHANGED <<result, attempt, invocations>>
    /\ IF op[p].dao THEN get_connection_block(p) ELSE conn' = conn
    /\ UNCHANGED <<sessions, tables, next_id, lock, pending, op, clock,
                   faults, io, wins, schema, connector, json>>

\* the rows of a batch with the identity values the table gives them
with_ids(batch, first) ==
    [i \in 1..Len(batch) |-> [id |-> first + i - 1, row |-> batch[i]]]

\* cursor.executemany / cursor.execute of the insert: the foreign key on
\* session_id waits for an uncommitted insert of the parent row and raises
\* ORA-02291 when there is no parent, which the body turns into RuntimeError
executemany(p) ==
    /\ pc[p] = "insert"
    /\ op[p].name \in SaveOps
    /\ ~(sessions[op[p].sid] = NoRow /\ lock[op[p].sid] # NoProc)
    /\ IF sessions[op[p].sid] = NoRow
       THEN /\ body_ends(p, dao_except(OracleErrorOf(2291)))
            /\ release(p)
            /\ get_connection_block(p)
            /\ UNCHANGED <<next_id, io>>
       ELSE /\ pending' = [pending EXCEPT ![p] =
                  [kind |-> "rows", row |-> NoRow,
                   rows |-> with_ids(cur[p].batch,
                                     next_id[kind_of(op[p].name)])]]
            /\ next_id' = [next_id EXCEPT
                              ![kind_of(op[p].name)] = @ + Len(cur[p].batch)]
            /\ io' = [io EXCEPT ![p].inserts = @ + 1]
            /\ pc' = [pc EXCEPT ![p] =
                  IF op[p].name = "save_harvest_loss_data"
                  THEN "select_max" ELSE "commit"]
            /\ get_connection(p)
            /\ UNCHANGED <<lock, result, attempt, invocations>>
    /\ UNCHANGED <<sessions, tables, op, cur, clock, faults, wins, schema, connector, json>>

\* cursor.executemany raises on row k + 1 of the batch (ORA-01438, value
\* larger than the precision of the column): the k rows before it are in the
\* transaction of the connection, and the exception is on its way out of the
\* connection block
executemany_fails(p) ==
    /\ pc[p] = "insert"
    /\ op[p].name \in SaveOps
    /\ sessions[op[p].sid] # NoRow
    /\ faults < MaxFaults
    /\ faults' = faults + 1
    /\ \E k \in 1..(Len(cur[p].batch) - 1) :
          /\ pending' = [pending EXCEPT ![p] =
                [kind |-> "rows", row |-> NoRow,
                 rows |-> with_ids(SubSeq(cur[p].batch, 1, k),
                                   next_id[kind_of(op[p].name)])]]
          /\ next_id' = [next_id EXCEPT ![kind_of(op[p].name)] = @ + k]
    /\ io' = [io EXCEPT ![p].inserts = @ + 1]
    /\ pc' = [pc EXCEPT ![p] = "failed"]
    /\ get_connection(p)
    /\ UNCHANGED <<sessions, tables, lock, op, cur, result, attempt,
                   invocations, clock, wins, schema, connector, json>>

\* the exception leaves the connection block: get_connection logs it and
\* releases the connection, the except clause of the body raises RuntimeError
executemany_raises(p) ==
    /\ pc[p] = "failed"
    /\ release(p)
    /\ get_connection_exit(p)
    /\ body_ends(p, dao_except(OracleErrorOf(1438)))
    /\ UNCHANGED <<sessions, tables, next_id, op, cur, clock, faults, io, wins,
                   schema, connector, json>>

\* the larger of two identity values
max2(a, b) == IF a >= b THEN a ELSE b

\* SELECT MAX(id) over a sequence of rows of one session, 0 for NULL
RECURSIVE max_id(_, _)
max_id(rows, sid) ==
    IF rows = <<>> THEN 0
    ELSE max2(IF Head(rows).row.session_id = sid THEN Head(rows).id ELSE 0,
              max_id(Tail(rows), sid))

\* save_harvest_loss_data: "SELECT MAX(id) FROM harvest_losses WHERE
\* session_id = :session_id", which sees the committed rows and its own
select_max(p) ==
    /\ pc[p] = "select_max"
    /\ cur' = [cur EXCEPT ![p].record_id =
                  max_id(tables["harvest"] \o pending[p].rows, op[p].sid)]
    /\ pc' = [pc EXCEPT ![p] = "commit"]
    /\ UNCHANGED <<sessions, tables, next_id, lock, pending, op, result,
                   attempt, invocations, clock, faults, io, wins, conn,
                   schema, connector, json>>

\* conn.commit() of a batch insert, and the return that follows it
commit_rows(p) ==
    /\ pc[p] = "commit"
    /\ op[p].name \in SaveOps
    /\ tables' = [tables EXCEPT ![kind_of(op[p].name)] = @ \o pending[p].rows]
    /\ release(p)
    /\ io' = [io EXCEPT ![p].commits = @ + 1]
    /\ IF op[p].name = "save_harvest_loss_data"
       THEN body_ends(p, Return(RetInt(cur[p].record_id)))
       ELSE body_ends(p, Return(RetInt(Len(cur[p].batch))))
    /\ get_connection_exit(p)
    /\ UNCHANGED <<sessions, next_id, op, cur, clock, faults, wins, schema, connector, json>>

\* rows the sessions table can hold when a save is called (NoRow: no session)
ReachableRows ==
    { [status |-> "active", end_timestamp |-> Null, version |-> 1],
      [status |-> "paused", end_timestamp |-> Null, version |-> 2],
      [status |-> "completed", end_timestamp |-> 1, version |-> 2],
      [status |-> "aborted", end_timestamp |-> 1, version |-> 2] }

InitBatch ==
    /\ sessions \in { f \in [Ids -> ReachableRows \cup {NoRow}] :
                         \A s \in Ids \ SaveIds : f[s] = NoRow }
    /\ tables = [k \in Kinds |-> <<>>]
    /\ next_id = [k \in Kinds |-> 1]
    /\ lock = [s \in Ids |-> NoProc]
    /\ pc = [p \in Procs |-> "idle"]
    /\ op = [p \in Procs |-> NoOp]
    /\ cur = [p \in Procs |-> NoCur]
    /\ pending = [p \in Procs |-> NoPending]
    /\ result = [p \in Procs |-> NoResult]
    /\ attempt = [p \in Procs |-> 0]
    /\ invocations = [p \in Procs |-> 0]
    /\ clock = 1
    /\ faults = 0
    /\ io = [p \in Procs |-> NoIo]
    /\ wins = <<>>
    /\ conn = [p \in Procs |-> NoConn]
    /\ schema = AllObjects
    /\ connector = LiveConnector
    /\ json = NoFiles

NextBatch ==
    \E p \in Procs :
        \/ call_save(p)
        \/ save_sensor_data(p)
        \/ save_emissions_data(p)
        \/ save_carbon_stock_data(p)
        \/ save_harvest_loss_data(p)
        \/ executemany(p)
        \/ executemany_fails(p)
        \/ executemany_raises(p)
        \/ select_max(p)
        \/ commit_rows(p)
        \/ store_error(p)
        \/ acquire_fails(p)
        \/ acquire_retry(p)

SpecBatch == InitBatch /\ [][NextBatch]_vars

\* ---------------------------------------- the classifier and the policy
\* codes handed to the classifier: every code of its lists and four others
\* (ORA-00060 deadlock, ORA-00955 name already used, ORA-01438, ORA-01555)
ErrorCodes ==
    CONNECTION_ERRORS \cup RESOURCE_ERRORS \cup CONSTRAINT_ERRORS
        \cup UNIQUE_ERRORS \cup PERMISSION_ERRORS \cup TIMEOUT_ERRORS
        \cup {60, 955, 1438, 1555}

\* attempt numbers handed to should_retry
AttemptArgs == 0..(max_attempts + 2)

\* values random.uniform(0.8, 1.2) may return, in thousandths
JitterValues == {800, 801, 950, 1000, 1050, 1199, 1200}

PolicyCalls ==
    [name : {"should_retry"}, sid : {"s1"}, status : {"active"},
     dao : {FALSE},
     payload : { <<[code |-> c, attempt |-> a]>> :
                    c \in ErrorCodes, a \in AttemptArgs }]
    \cup [name : {"to_dict"}, sid : {"s1"}, status : {"active"},
          dao : {FALSE},
          payload : { <<[code |-> c, attempt |-> 0]>> : c \in ErrorCodes }]
    \cup [name : {"get_delay"}, sid : {"s1"}, status : {"active"},
          dao : {FALSE},
          payload : { <<[code |-> j, attempt |-> a]>> :
                         j \in JitterValues, a \in AttemptArgs }]

call_policy(p) == \E o \in PolicyCalls : begin(p, o, MaxPolicyCalls)

\* retry_policy.should_retry(OracleError(e), attempt)
should_retry_call(p) ==
    /\ pc[p] = "entry"
    /\ op[p].name = "should_retry"
    /\ pc' = [pc EXCEPT ![p] = "idle"]
    /\ result' = [result EXCEPT ![p] =
          RetBool(should_retry(classify(op[p].payload[1].code).is_recoverable,
                               op[p].payload[1].attempt))]
    /\ UNCHANGED <<sessions, tables, next_id, lock, pending, op, cur, attempt,
                   invocations, clock, faults, io, wins, conn, schema, connector, json>>

\* OracleError(e).to_dict()
to_dict_call(p) ==
    /\ pc[p] = "entry"
    /\ op[p].name = "to_dict"
    /\ pc' = [pc EXCEPT ![p] = "idle"]
    /\ result' = [result EXCEPT ![p] = to_dict(op[p].payload[1].code)]
    /\ UNCHANGED <<sessions, tables, next_id, lock, pending, op, cur, attempt,
                   invocations, clock, faults, io, wins, conn, schema, connector, json>>

\* retry_policy.get_delay(attempt), with the jitter it draws
get_delay_call(p) ==
    /\ pc[p] = "entry"
    /\ op[p].name = "get_delay"
    /\ pc' = [pc EXCEPT ![p] = "idle"]
    /\ result' = [result EXCEPT ![p] =
          RetInt(get_delay(op[p].payload[1].attempt, op[p].payload[1].code))]
    /\ UNCHANGED <<sessions, tables, next_id, lock, pending, op, cur, attempt,
                   invocations, clock, faults, io, wins, conn, schema,
                   connector, json>>

NextPolicy ==
    \E p \in Procs :
        \/ call_policy(p)
        \/ should_retry_call(p)
        \/ to_dict_call(p)
        \/ get_delay_call(p)

SpecPolicy == Init /\ [][NextPolicy]_vars


\* ------------------------------------------------- the with_retry wrapper
\* codes the wrapped function may raise: one of each list of OracleError
\* and one (ORA-00955) of none
FuncCodes == {12541, 4031, 1013, 1, 942, 955}
NotOracle == 0

\* what one invocation of func does: it returns, raises an exception that
\* is no cx_Oracle.Error, or raises cx_Oracle.Error with one of the codes
FuncOutcomes ==
    {[code |-> NotOracle, outcome |-> Return(RetInt(1))],
     [code |-> NotOracle, outcome |-> Raise("ValueError")]}
    \cup {[code |-> c, outcome |-> OracleErrorOf(c)] : c \in FuncCodes}

FuncCalls ==
    [name : {"func"}, sid : {"s1"}, status : {"active"}, dao : {FALSE},
     payload : {<<>>}]

\* a caller enters a function decorated as the DAO methods are,
\* with_error_handling over with_retry
call_func(p) == \E o \in FuncCalls : begin(p, o, MaxWraps)

\* with_retry.wrapper: "return func(*args, **kwargs)" and the except
\* clauses up to time.sleep or the raise after the loop
func(p) ==
    /\ pc[p] = "entry"
    /\ op[p].name = "func"
    /\ \E f \in FuncOutcomes :
          /\ cur' = [cur EXCEPT ![p].raised =
                        IF f.outcome.kind = "return" THEN @
                        ELSE Append(@, f.code)]
          /\ body_ends(p, f.outcome)
    /\ UNCHANGED <<sessions, tables, next_id, lock, pending, op, clock,
                   faults, io, wins, conn, schema, connector, json>>

\* with_retry.wrapper: time.sleep(delay) is over and the loop tests
\* "attempt < retry_policy.max_attempts"
sleep(p) ==
    /\ pc[p] = "sleep"
    /\ IF attempt[p] < max_attempts
       THEN /\ pc' = [pc EXCEPT ![p] = "entry"]
            /\ invocations' = [invocations EXCEPT ![p] = @ + 1]
            /\ result' = result
       ELSE /\ pc' = [pc EXCEPT ![p] = "idle"]
            /\ invocations' = invocations
            /\ result' = [result EXCEPT ![p] = RuntimeError]
    /\ UNCHANGED <<sessions, tables, next_id, lock, pending, op, cur, attempt,
                   clock, faults, io, wins, conn, schema, connector, json>>

NextRetry ==
    \E p \in Procs :
        \/ call_func(p)
        \/ func(p)
        \/ sleep(p)

SpecRetry == Init /\ [][NextRetry]_vars

\* a caller that is inside the wrapper keeps running: the invocation of
\* func ends and time.sleep returns
FairSpecRetry ==
    SpecRetry /\ \A p \in Procs : WF_vars(func(p)) /\ WF_vars(sleep(p))


\* ---------------------------------------------- schema initialization
\* the order in which both routines create the tables
CreateOrder ==
    <<"sessions", "sensor_data", "ghg_emissions", "carbon_stocks",
      "harvest_losses">>

\* SchemaInitializer.__init__: self.indices
InitializerIndices ==
    <<"idx_sensor_session_time", "idx_emissions_session",
      "idx_carbon_session", "idx_losses_session">>

\* the table of the ON clause of each CREATE INDEX
index_table(i) ==
    CASE i = "idx_sensor_session_time" -> "sensor_data"
      [] i \in {"idx_emissions_session_cat", "idx_emissions_session"} ->
            "ghg_emissions"
      [] i \in {"idx_carbon_session_type", "idx_carbon_session"} ->
            "carbon_stocks"
      [] OTHER -> "harvest_losses"

\* the record table each DAO writes
table_of(k) ==
    CASE k = "sensor" -> "sensor_data"
      [] k = "emission" -> "ghg_emissions"
      [] k = "carbon" -> "carbon_stocks"
      [] OTHER -> "harvest_losses"

Statement(s, n) == [stmt |-> s, name |-> n]

\* one statement of kind s for every element of seq
Statements(s, seq) == [i \in DOMAIN seq |-> Statement(s, seq[i])]

\* seq backwards
Reversed(seq) == [i \in DOMAIN seq |-> seq[Len(seq) + 1 - i]]

\* OracleConnector.create_tables: tables_to_create, then the indices
create_tables_statements(existing_tables) ==
    Statements("CREATE TABLE",
               SelectSeq(CreateOrder, LAMBDA t : t \notin existing_tables))
        \o Statements("CREATE INDEX", ConnectorIndices)

\* SchemaInitializer.create_schema: _drop_existing_tables drops every
\* existing table, last fetched first (the foreign keys of the existing
\* tables are dropped before, so the order of the drops is free); then all
\* five tables and the indices are created
create_schema_statements(existing_tables) ==
    Statements("DROP TABLE",
               Reversed(SelectSeq(CreateOrder,
                                  LAMBDA t : t \in existing_tables)))
        \o Statements("CREATE TABLE", CreateOrder)
        \o Statements("CREATE INDEX", InitializerIndices)

SchemaOps == {"create_tables", "create_schema"}

SchemaCalls ==
    [name : SchemaOps, sid : {"s1"}, status : {"active"}, dao : {FALSE},
     payload : {<<>>}]

call_schema(p) == \E o \in SchemaCalls : begin(p, o, MaxInits)

\* both routines: the SELECT on user_tables gives existing_tables
enumerate_tables(p) ==
    /\ pc[p] = "entry"
    /\ op[p].name \in SchemaOps
    /\ pc' = [pc EXCEPT ![p] = "ddl"]
    /\ cur' = [cur EXCEPT ![p].todo =
                  IF op[p].name = "create_tables"
                  THEN create_tables_statements(schema.tables)
                  ELSE create_schema_statements(schema.tables)]
    /\ IF op[p].name = "create_tables"
       THEN get_connection(p) ELSE conn' = conn
    /\ UNCHANGED <<sessions, tables, next_id, lock, pending, op, result,
                   attempt, invocations, clock, faults, io, wins, schema, connector, json>>

\* the routine of p returns b; create_tables leaves its connection block
schema_returns(p, b) ==
    /\ pc' = [pc EXCEPT ![p] = "idle"]
    /\ result' = [result EXCEPT ![p] = RetBool(b)]
    /\ cur' = [cur EXCEPT ![p].todo = <<>>]
    /\ IF op[p].name = "create_tables"
       THEN get_connection_exit(p) ELSE conn' = conn

\* the routine of p goes on to its next statement
schema_continues(p) ==
    /\ cur' = [cur EXCEPT ![p].todo = Tail(@)]
    /\ UNCHANGED <<pc, result, conn>>

\* DROP TABLE t: the table goes with its rows and its indices; a table
\* that is gone already gives ORA-00942, which _drop_existing_tables logs
drop_table(t) ==
    /\ schema' = [tables |-> schema.tables \ {t},
                  indices |-> {i \in schema.indices : index_table(i) # t}]
    /\ sessions' = IF t = "sessions" /\ t \in schema.tables
                   THEN [s \in Ids |-> NoRow] ELSE sessions
    /\ tables' = [k \in Kinds |->
                     IF table_of(k) = t THEN <<>> ELSE tables[k]]

\* cursor.execute("DROP TABLE ...") of _drop_existing_tables
execute_drop(p) ==
    /\ drop_table(Head(cur[p].todo).name)
    /\ schema_continues(p)

\* cursor.execute(schema) of a CREATE TABLE: ORA-00955 for a table that
\* exists is ignored, ORA-00942 for a record table whose sessions table is
\* missing is raised and ends the routine with False
execute_create_table(p) ==
    LET t == Head(cur[p].todo).name
    IN IF t \in schema.tables
       THEN schema_continues(p) /\ schema' = schema
       ELSE IF t # "sessions" /\ "sessions" \notin schema.tables
       THEN schema_returns(p, FALSE) /\ schema' = schema
       ELSE /\ schema_continues(p)
            /\ schema' = [schema EXCEPT !.tables = @ \cup {t}]

\* cursor.execute(index_sql): ORA-00955 for an index that exists is
\* ignored, any other error (the table is missing) is logged
execute_create_index(p) ==
    LET i == Head(cur[p].todo).name
    IN /\ schema_continues(p)
       /\ schema' = IF i \notin schema.indices
                       /\ index_table(i) \in schema.tables
                    THEN [schema EXCEPT !.indices = @ \cup {i}]
                    ELSE schema

\* one statement of the routine of p (every DDL statement commits)
execute(p) ==
    /\ pc[p] = "ddl"
    /\ op[p].name \in SchemaOps
    /\ cur[p].todo # <<>>
    /\ CASE Head(cur[p].todo).stmt = "DROP TABLE" -> execute_drop(p)
         [] Head(cur[p].todo).stmt = "CREATE TABLE" ->
               execute_create_table(p) /\ UNCHANGED <<sessions, tables>>
         [] OTHER ->
               execute_create_index(p) /\ UNCHANGED <<sessions, tables>>
    /\ UNCHANGED <<next_id, lock, pending, op, attempt, invocations, clock,
                   faults, io, wins, connector, json>>

\* the store raises another error on the statement: a CREATE TABLE raises
\* and the routine returns False, a DROP TABLE or a CREATE INDEX logs a
\* warning and the routine goes on
execute_fails(p) ==
    /\ pc[p] = "ddl"
    /\ op[p].name \in SchemaOps
    /\ cur[p].todo # <<>>
    /\ faults < MaxFaults
    /\ faults' = faults + 1
    /\ IF Head(cur[p].todo).stmt = "CREATE TABLE"
       THEN /\ pc' = [pc EXCEPT ![p] = "idle"]
            /\ result' = [result EXCEPT ![p] = RetBool(FALSE)]
            /\ cur' = [cur EXCEPT ![p].todo = <<>>,
                                  ![p].raised = Append(@, Head(cur[p].todo))]
            /\ IF op[p].name = "create_tables"
               THEN get_connection_exit(p) ELSE conn' = conn
       ELSE /\ cur' = [cur EXCEPT ![p].todo = Tail(@),
                                  ![p].raised = Append(@, Head(cur[p].todo))]
            /\ UNCHANGED <<pc, result, conn>>
    /\ UNCHANGED <<sessions, tables, next_id, lock, pending, op, attempt,
                   invocations, clock, io, wins, schema, connector, json>>

\* conn.commit() and "return True" after the last statement
schema_commit(p) ==
    /\ pc[p] = "ddl"
    /\ op[p].name \in SchemaOps
    /\ cur[p].todo = <<>>
    /\ schema_returns(p, TRUE)
    /\ UNCHANGED <<sessions, tables, next_id, lock, pending, op, attempt,
                   invocations, clock, faults, io, wins, schema, connector, json>>

\* a row of a record table, of session s1
StoredRow == [id |-> 1, row |-> [session_id |-> "s1"]]

\* the stores schema initialization may find: no table, or the sessions
\* table with any of the record tables, with the connector's indices or
\* without indices, empty or with one session and one row in every record
\* table
InitSchema ==
    /\ \E T \in SUBSET TableNames, indexed \in BOOLEAN, filled \in BOOLEAN :
          /\ T # {} => "sessions" \in T
          /\ T = {} => ~indexed /\ ~filled
          /\ schema = [tables |-> T,
                       indices |-> IF indexed
                                   THEN {i \in Range(ConnectorIndices) :
                                            index_table(i) \in T}
                                   ELSE {}]
          /\ sessions = [s \in Ids |->
                            IF filled /\ s = "s1" THEN create_query(1)
                            ELSE NoRow]
          /\ tables = [k \in Kinds |->
                          IF filled /\ table_of(k) \in T
                          THEN <<StoredRow>> ELSE <<>>]
    /\ next_id = [k \in Kinds |-> Len(tables[k]) + 1]
    /\ lock = [s \in Ids |-> NoProc]
    /\ pc = [p \in Procs |-> "idle"]
    /\ op = [p \in Procs |-> NoOp]
    /\ cur = [p \in Procs |-> NoCur]
    /\ pending = [p \in Procs |-> NoPending]
    /\ result = [p \in Procs |-> NoResult]
    /\ attempt = [p \in Procs |-> 0]
    /\ invocations = [p \in Procs |-> 0]
    /\ clock = 1
    /\ faults = 0
    /\ io = [p \in Procs |-> NoIo]
    /\ wins = <<>>
    /\ conn = [p \in Procs |-> NoConn]
    /\ connector = LiveConnector
    /\ json = NoFiles

NextSchema ==
    \E p \in Procs :
        \/ call_schema(p)
        \/ enumerate_tables(p)
        \/ execute(p)
        \/ execute_fails(p)
        \/ schema_commit(p)

SpecSchema == InitSchema /\ [][NextSchema]_vars


\* ---------------------------------------------------- simulated mode
\* get_connection, simulated_mode: the cursor of DummyConnection has
\* execute, fetchone, fetchall and close and nothing else; fetchone returns
\* [1] and fetchall [[1]] whatever was executed
DummyCursor ==
    [attrs |-> {"execute", "fetchone", "fetchall", "close"},
     fetchone |-> <<1>>,
     fetchall |-> << <<1>> >>]

\* the use of attribute a of the cursor: AttributeError when it has none
lacks(cursor, a) == a \notin cursor.attrs

\* SessionDAO.create_session inside the connection block, on this cursor
create_session_on(cursor, o) ==
    IF cursor.fetchone # <<>> THEN Raise("ValueError")
    ELSE Return(RetStr(o.sid))

\* SessionDAO.get_session inside the connection block, on this cursor: None
\* (False for validate_session) for no row, else the row as a dict built
\* from cursor.description
get_session_on(cursor, o) ==
    IF cursor.fetchone = <<>> THEN Return(RetBool(FALSE))
    ELSE IF lacks(cursor, "description") THEN Raise("AttributeError")
    ELSE Return(RetBool(TRUE))

\* SessionDAO.update_status and end_session, on this cursor
transition_on(cursor, o) ==
    IF o.name = "update_status" /\ o.status \notin valid_statuses
    THEN Raise("ValueError")
    ELSE IF o.name = "end_session" /\ o.status \notin end_valid_statuses
    THEN Raise("ValueError")
    ELSE IF cursor.fetchone = <<>> THEN Return(RetBool(FALSE))
    ELSE IF lacks(cursor, "description") THEN Raise("AttributeError")
    ELSE IF lacks(cursor, "rowcount") THEN Raise("AttributeError")
    ELSE Return(RetBool(TRUE))

\* the session check of a save: validate_session lets the RuntimeError of
\* get_session through, and a False makes the save raise ValueError
session_check_on(cursor, o) ==
    IF ~o.dao THEN Return(RetBool(TRUE))
    ELSE IF get_session_on(cursor, o).kind # "return"
    THEN Raise("RuntimeError")
    ELSE IF get_session_on(cursor, o).value = RetBool(FALSE)
    THEN Raise("ValueError")
    ELSE Return(RetBool(TRUE))

\* the three counting saves, on this cursor
save_on(cursor, o, batch) ==
    IF session_check_on(cursor, o).kind # "return"
    THEN session_check_on(cursor, o)
    ELSE IF o.payload = <<>> \/ batch = <<>> THEN Return(RetInt(0))
    ELSE IF lacks(cursor, "executemany") THEN Raise("AttributeError")
    ELSE Return(RetInt(Len(batch)))

\* HarvestDAO.save_harvest_loss_data, on this cursor: record_id is
\* cursor.fetchone()[0]
save_harvest_loss_data_on(cursor, o) ==
    IF session_check_on(cursor, o).kind # "return"
    THEN session_check_on(cursor, o)
    ELSE IF harvest_rejected(o.payload) THEN Raise("ValueError")
    ELSE Return(RetInt(cursor.fetchone[1]))

\* the body of DAO call o on this cursor
body_on(cursor, o) ==
    CASE o.name = "create_session" -> create_session_on(cursor, o)
      [] o.name = "validate_session" -> get_session_on(cursor, o)
      [] o.name \in {"update_status", "end_session"} ->
            transition_on(cursor, o)
      [] o.name = "save_sensor_data" ->
            save_on(cursor, o, sensor_batch(o.sid, o.payload))
      [] o.name = "save_emissions_data" ->
            save_on(cursor, o, emissions_batch(o.sid, o.payload))
      [] o.name = "save_carbon_stock_data" ->
            save_on(cursor, o, carbon_batch(o.sid, o.payload))
      [] OTHER -> save_harvest_loss_data_on(cursor, o)

ConnectorOps == {"initialize", "shutdown"}

ConnectorCalls ==
    [name : ConnectorOps, sid : {"s1"}, status : {"active"}, dao : {FALSE},
     payload : {<<>>}]

SimulatedCalls == ConnectorCalls \cup SessionCalls \cup SaveCalls

call_simulated(p) == \E o \in SimulatedCalls : begin(p, o, MaxSimCalls)

\* a DAO method on a connector in simulated mode: initialize marks the
\* connector initialized, the body runs on the cursor of DummyConnection
dao_simulated(p) ==
    /\ pc[p] = "entry"
    /\ connector.simulated_mode
    /\ op[p].name \in SessionOps \cup SaveOps \cup {"validate_session"}
    /\ connector' = [connector EXCEPT !.initialized = TRUE]
    /\ IF op[p].name = "validate_session"
       THEN unretried_ends(p, dao_except(body_on(DummyCursor, op[p])))
       ELSE body_ends(p, dao_except(body_on(DummyCursor, op[p])))
    /\ UNCHANGED <<sessions, tables, next_id, lock, pending, op, cur, clock,
                   faults, io, wins, conn, schema, json>>

\* OracleConnector.initialize: an initialized connector returns True, a
\* simulated one is marked initialized; otherwise the pool is created and
\* tested with SELECT 1 FROM DUAL, and an error of either step gives False
initialize(p) ==
    /\ pc[p] = "entry"
    /\ op[p].name = "initialize"
    /\ pc' = [pc EXCEPT ![p] = "idle"]
    /\ IF connector.initialized
       THEN /\ result' = [result EXCEPT ![p] = RetBool(TRUE)]
            /\ UNCHANGED <<connector, faults, conn>>
       ELSE IF connector.simulated_mode
       THEN /\ result' = [result EXCEPT ![p] = RetBool(TRUE)]
            /\ connector' = [connector EXCEPT !.initialized = TRUE]
            /\ UNCHANGED <<faults, conn>>
       ELSE \/ /\ faults < MaxFaults
               /\ faults' = faults + 1
               /\ result' = [result EXCEPT ![p] = RetBool(FALSE)]
               /\ UNCHANGED <<connector, conn>>
            \/ /\ faults < MaxFaults
               /\ faults' = faults + 1
               /\ result' = [result EXCEPT ![p] = RetBool(FALSE)]
               /\ connector' = [connector EXCEPT !.pool = TRUE]
               /\ get_connection_block(p)
            \/ /\ result' = [result EXCEPT ![p] = RetBool(TRUE)]
               /\ connector' = [connector EXCEPT !.pool = TRUE,
                                                 !.initialized = TRUE]
               /\ get_connection_block(p)
               /\ faults' = faults
    /\ UNCHANGED <<sessions, tables, next_id, lock, pending, op, cur, attempt,
                   invocations, clock, io, wins, schema, json>>

\* OracleConnector.shutdown
shutdown(p) ==
    /\ pc[p] = "entry"
    /\ op[p].name = "shutdown"
    /\ pc' = [pc EXCEPT ![p] = "idle"]
    /\ IF connector.simulated_mode
       THEN /\ result' = [result EXCEPT ![p] = RetBool(TRUE)]
            /\ connector' = [connector EXCEPT !.initialized = FALSE]
            /\ faults' = faults
       ELSE IF ~connector.pool
       THEN /\ result' = [result EXCEPT ![p] = RetBool(TRUE)]
            /\ UNCHANGED <<connector, faults>>
       ELSE \/ /\ result' = [result EXCEPT ![p] = RetBool(TRUE)]
               /\ connector' = [connector EXCEPT !.pool = FALSE,
                                                 !.initialized = FALSE]
               /\ faults' = faults
            \/ /\ faults < MaxFaults
               /\ faults' = faults + 1
               /\ result' = [result EXCEPT ![p] = RetBool(FALSE)]
               /\ connector' = connector
    /\ UNCHANGED <<sessions, tables, next_id, lock, pending, op, cur, attempt,
                   invocations, clock, io, wins, conn, schema, json>>

\* a connector constructed with simulated_mode, or without
NewConnector(simulated) ==
    [initialized |-> FALSE, pool |-> FALSE, simulated_mode |-> simulated]

InitSimulated ==
    /\ sessions = [s \in Ids |-> NoRow]
    /\ tables = [k \in Kinds |-> <<>>]
    /\ next_id = [k \in Kinds |-> 1]
    /\ lock = [s \in Ids |-> NoProc]
    /\ pc = [p \in Procs |-> "idle"]
    /\ op = [p \in Procs |-> NoOp]
    /\ cur = [p \in Procs |-> NoCur]
    /\ pending = [p \in Procs |-> NoPending]
    /\ result = [p \in Procs |-> NoResult]
    /\ attempt = [p \in Procs |-> 0]
    /\ invocations = [p \in Procs |-> 0]
    /\ clock = 1
    /\ faults = 0
    /\ io = [p \in Procs |-> NoIo]
    /\ wins = <<>>
    /\ conn = [p \in Procs |-> NoConn]
    /\ schema = AllObjects
    /\ connector = NewConnector(TRUE)
    /\ json = NoFiles

NextSimulated ==
    \E p \in Procs :
        \/ call_simulated(p)
        \/ dao_simulated(p)
        \/ initialize(p)
        \/ shutdown(p)

SpecSimulated == InitSimulated /\ [][NextSimulated]_vars


\* --------------------------------------------------------- JsonManager
JsonOps == {"JsonManager.create_session", "JsonManager.end_session"}

\* end_session takes an id or None; create_session takes nothing
JsonCalls ==
    [name : {"JsonManager.create_session"}, sid : {None},
     status : {"active"}, dao : {FALSE}, payload : {<<>>}]
    \cup [name : {"JsonManager.end_session"}, sid : Ids \cup {None},
          status : {"active"}, dao : {FALSE}, payload : {<<>>}]

call_json(p) == \E o \in JsonCalls : begin(p, o, MaxJsonCalls)

\* JsonManager.create_session: session_data
session_file(ts) == [status |-> "active", end_timestamp |-> Null]

\* an end_session that sets the status only
ended_file_without_timestamp(file, ts) ==
    [file EXCEPT !.status = "completed"]

\* JsonManager.end_session: the two assignments to session_data
ended_file(file, ts) ==
    [file EXCEPT !.end_timestamp = ts, !.status = "completed"]

\* JsonManager.create_session: the id is made of the time and eight hex
\* digits of a uuid4, the file of that name is written
json_create_session(p) ==
    /\ pc[p] = "entry"
    /\ op[p].name = "JsonManager.create_session"
    /\ \E session_id \in Ids :
          /\ json' = [files |-> [json.files EXCEPT
                                    ![session_id] = session_file(clock)],
                      current_session_id |-> session_id]
          /\ result' = [result EXCEPT ![p] = RetStr(session_id)]
    /\ pc' = [pc EXCEPT ![p] = "idle"]
    /\ UNCHANGED <<sessions, tables, next_id, lock, pending, op, cur, attempt,
                   invocations, clock, faults, io, wins, conn, schema,
                   connector>>

\* JsonManager.end_session
json_end_session(p) ==
    /\ pc[p] = "entry"
    /\ op[p].name = "JsonManager.end_session"
    /\ pc' = [pc EXCEPT ![p] = "idle"]
    /\ LET session_id == IF op[p].sid # None THEN op[p].sid
                         ELSE json.current_session_id
       IN IF session_id = None
          THEN /\ result' = [result EXCEPT ![p] = RetBool(FALSE)]
               /\ json' = json
          ELSE IF json.files[session_id] = NoFile
          THEN /\ result' = [result EXCEPT ![p] = RetBool(FALSE)]
               /\ json' = json
          ELSE /\ result' = [result EXCEPT ![p] = RetBool(TRUE)]
               /\ json' = [json EXCEPT !.files[session_id] =
                                          ended_file(@, clock)]
    /\ UNCHANGED <<sessions, tables, next_id, lock, pending, op, cur, attempt,
                   invocations, clock, faults, io, wins, conn, schema,
                   connector>>

NextJson ==
    \E p \in Procs :
        \/ call_json(p)
        \/ json_create_session(p)
        \/ json_end_session(p)

SpecJson == Init /\ [][NextJson]_vars


\* ------------------------------------- a save beside a session transition
\* the calls that take a session out of 'active'
TransitionCalls ==
    {o \in SessionCalls : o.name \in {"update_status", "end_session"}}

call_transition(p) == \E o \in TransitionCalls : begin(p, o, MaxRaceCalls)

NextRace ==
    \E p \in Procs :
        \/ call_save(p)
        \/ call_transition(p)
        \/ save_sensor_data(p)
        \/ save_emissions_data(p)
        \/ save_carbon_stock_data(p)
        \/ save_harvest_loss_data(p)
        \/ executemany(p)
        \/ select_max(p)
        \/ commit_rows(p)
        \/ update_status(p)
        \/ update_status_update(p)
        \/ end_session(p)
        \/ end_session_update(p)
        \/ commit_session(p)

SpecRace == InitBatch /\ [][NextRace]_vars


\* ------------------------------------------- harvest saves side by side
HarvestCalls == {o \in SaveCalls : o.name = "save_harvest_loss_data"}

call_harvest(p) == \E o \in HarvestCalls : begin(p, o, MaxHarvestSaves)

NextHarvest ==
    \E p \in Procs :
        \/ call_harvest(p)
        \/ save_harvest_loss_data(p)
        \/ executemany(p)
        \/ select_max(p)
        \/ commit_rows(p)

SpecHarvest == InitBatch /\ [][NextHarvest]_vars


\* --------------------------------- the connector's life outside simulation
call_connector(p) == \E o \in ConnectorCalls : begin(p, o, MaxConnectorCalls)

\* OracleConnector(config) without simulated_mode, before initialize
InitConnector ==
    /\ sessions = [s \in Ids |-> NoRow]
    /\ tables = [k \in Kinds |-> <<>>]
    /\ next_id = [k \in Kinds |-> 1]
    /\ lock = [s \in Ids |-> NoProc]
    /\ pc = [p \in Procs |-> "idle"]
    /\ op = [p \in Procs |-> NoOp]
    /\ cur = [p \in Procs |-> NoCur]
    /\ pending = [p \in Procs |-> NoPending]
    /\ result = [p \in Procs |-> NoResult]
    /\ attempt = [p \in Procs |-> 0]
    /\ invocations = [p \in Procs |-> 0]
    /\ clock = 1
    /\ faults = 0
    /\ io = [p \in Procs |-> NoIo]
    /\ wins = <<>>
    /\ conn = [p \in Procs |-> NoConn]
    /\ schema = AllObjects
    /\ connector = NewConnector(FALSE)
    /\ json = NoFiles

NextConnector ==
    \E p \in Procs :
        \/ call_connector(p)
        \/ initialize(p)
        \/ shutdown(p)

SpecConnector == InitConnector /\ [][NextConnector]_vars

\* ----------------------------------------------------------------- claims
Terminal == {"completed", "aborted"}
Transitions == {"update_status", "end_session"}

\* p's call returns or raises in this step
Returns(p) == pc[p] # "idle" /\ pc'[p] = "idle"

\* C1: every session row has end_timestamp non-null if and only if its
\* status is completed or aborted.
C1_EndTimestampIffTerminal ==
    \A s \in Ids :
        sessions[s] # NoRow =>
            ((sessions[s].end_timestamp # Null) <=>
             (sessions[s].status \in Terminal))

\* C2: once a session is completed or aborted, no update_status or
\* end_session succeeds on it and its row never changes again.
C2_TerminalIsFinal ==
    [][\A s \in Ids :
          sessions[s].status \in Terminal =>
              /\ sessions'[s] = sessions[s]
              /\ \A p \in Procs :
                    (Returns(p) /\ op[p].sid = s /\ op[p].name \in Transitions)
                        => result'[p] # RetBool(TRUE)]_vars

\* C3: a row is created with version 1; a step changes a version only by
\* adding 1, and does so exactly when an update_status or end_session call on
\* that session returns True in that step (a call that returns False or
\* raises leaves it alone), so a version never decreases.
C3_VersionSteps ==
    [][\A s \in Ids :
          /\ (sessions[s] = NoRow /\ sessions'[s] # NoRow)
                 => sessions'[s].version = 1
          /\ sessions[s] # NoRow =>
                 /\ sessions'[s] # NoRow
                 /\ sessions'[s].version \in
                        {sessions[s].version, sessions[s].version + 1}
                 /\ (sessions'[s].version = sessions[s].version + 1)
                      <=> \E p \in Procs :
                             /\ Returns(p)
                             /\ op[p].sid = s
                             /\ op[p].name \in Transitions
                             /\ result'[p] = RetBool(TRUE)]_vars

C3_Witness ==
    \E p, q \in Procs :
        /\ pc[p] = "idle" /\ op[p].name \in Transitions
        /\ result[p] = RetBool(TRUE)
        /\ sessions[op[p].sid].version = 3
        /\ pc[q] = "idle" /\ op[q].name \in Transitions
        /\ op[q].sid = op[p].sid
        /\ result[q] \in {RetBool(FALSE), RuntimeError}

\* C4: of the update_status and end_session calls that read the same version
\* of the same session, at most one returns True.
C4_AtMostOneWinner ==
    \A i, j \in DOMAIN wins : i # j => wins[i] # wins[j]

C4_Witness ==
    \E p, q \in Procs :
        /\ p # q
        /\ pc[p] = "idle" /\ pc[q] = "idle"
        /\ op[p].name \in Transitions /\ op[q].name \in Transitions
        /\ op[p].sid = op[q].sid
        /\ cur[p].version > 0 /\ cur[p].version = cur[q].version
        /\ result[p] = RetBool(TRUE)
        /\ result[q] = RetBool(FALSE)

\* C5: when update_status executes its conditional UPDATE after another
\* writer has advanced the version it read, the call returns False in that
\* step, writes nothing, and its body has been entered exactly once.
C5_StaleUpdateReturnsFalse ==
    [][\A p \in Procs :
          (/\ op[p].name = "update_status"
           /\ pc[p] = "write" /\ pc'[p] # "write"
           /\ faults' = faults
           /\ sessions[op[p].sid].version # cur[p].version)
          => /\ pc'[p] = "idle"
             /\ result'[p] = RetBool(FALSE)
             /\ sessions' = sessions
             /\ pending'[p] = NoPending
             /\ invocations'[p] = 1]_vars

C5_Witness ==
    \E p \in Procs :
        /\ op[p].name = "update_status"
        /\ pc[p] = "idle"
        /\ result[p] = RetBool(FALSE)
        /\ cur[p].version > 0
        /\ sessions[op[p].sid].version > cur[p].version
        /\ invocations[p] = 1

\* C6: an end_session(id, 'completed') that returns while the row is as
\* created (active, no end_timestamp, version 1) returns True and leaves it
\* completed with an end_timestamp and version 2; one that returns while the
\* row is already completed or aborted returns False and changes nothing.
C6_EndTwice ==
    [][\A p \in Procs :
          (/\ op[p].name = "end_session"
           /\ op[p].status = "completed"
           /\ Returns(p)
           /\ faults' = faults)
          => LET row == sessions[op[p].sid]
                 new == sessions'[op[p].sid]
             IN /\ (row.status = "active" /\ row.end_timestamp = Null
                        /\ row.version = 1)
                    => /\ result'[p] = RetBool(TRUE)
                       /\ new.status = "completed"
                       /\ new.end_timestamp # Null
                       /\ new.version = 2
                /\ row.status \in Terminal
                    => /\ result'[p] = RetBool(FALSE)
                       /\ sessions' = sessions]_vars

C6_Witness ==
    \E p \in Procs :
        /\ op[p].name = "end_session"
        /\ op[p].status = "completed"
        /\ pc[p] = "idle"
        /\ result[p] = RetBool(FALSE)
        /\ cur[p].version = 0
        /\ sessions[op[p].sid].status = "completed"
        /\ sessions[op[p].sid].end_timestamp # Null
        /\ sessions[op[p].sid].version = 2

\* C7: validate_session(id) returns True exactly when the row exists, its
\* status is active and its end_timestamp is null; it holds of the id
\* create_session returns, at the moment it returns it.
C7_ValidateSession ==
    [][\A p \in Procs :
          /\ (op[p].name = "validate_session" /\ Returns(p)
                 /\ faults' = faults)
             => result'[p] = RetBool(/\ sessions[op[p].sid] # NoRow
                                     /\ sessions[op[p].sid].status = "active"
                                     /\ sessions[op[p].sid].end_timestamp = Null)
          /\ (op[p].name = "create_session" /\ Returns(p)
                 /\ result'[p].kind = "str")
             => validate_session_row(sessions'[result'[p].s])]_vars

C7_Witness ==
    \E p, q \in Procs :
        /\ op[p].name = "validate_session" /\ pc[p] = "idle"
        /\ result[p] = RetBool(TRUE)
        /\ op[q].name = "validate_session" /\ pc[q] = "idle"
        /\ result[q] = RetBool(FALSE)
        /\ sessions[op[q].sid] # NoRow

\* a sessions row that exists, is active and has no end_timestamp
IsActive(row) ==
    row # NoRow /\ row.status = "active" /\ row.end_timestamp = Null

CountingSaves == SaveOps \ {"save_harvest_loss_data"}

\* the validation rules of one candidate row of a payload
CandidateValid(name, c) ==
    CASE name = "save_sensor_data" ->
            c.fmt \in {"simple", "full"} /\ c.value.t = "num"
      [] name = "save_emissions_data" ->
            /\ c.scope \in 1..3
            /\ c.gas \in {"CO2", "CH4", "N2O", "CO2e"}
            /\ c.value.t = "num"
            /\ (c.value.n >= 0 \/ c.gas = "CO2")
      [] name = "save_carbon_stock_data" ->
            /\ c.stock_type \in VALID_STOCK_TYPES
            /\ c.change_co2.t = "num"
      [] OTHER ->
            /\ c.loss_estimate.t = "num"
            /\ c.loss_estimate.n >= 0
            /\ c.loss_estimate.n <= 100

\* N: the valid candidates of the payload of call o
NValid(o) ==
    Cardinality({i \in DOMAIN o.payload : CandidateValid(o.name, o.payload[i])})

\* the step adds exactly n rows to the table of call o, all for its session
Inserts(o, n) ==
    LET k == kind_of(o.name)
    IN /\ Len(tables'[k]) = Len(tables[k]) + n
       /\ SubSeq(tables'[k], 1, Len(tables[k])) = tables[k]
       /\ \A i \in (Len(tables[k]) + 1)..Len(tables'[k]) :
              tables'[k][i].row.session_id = o.sid
       /\ \A j \in Kinds \ {k} : tables'[j] = tables[j]

\* C8 (as claimed): a save of any batch DAO instance whose session is absent
\* or not active when the call checks it fails and inserts no row.
C8_EverySaveRejectsInvalidSession ==
    [][\A p \in Procs :
          (/\ op[p].name \in SaveOps
           /\ pc[p] = "entry" /\ pc'[p] \notin {"entry", "acquire_sleep"}
           /\ ~IsActive(sessions[op[p].sid]))
          => /\ pc'[p] = "idle"
             /\ result'[p] = RuntimeError
             /\ tables' = tables
             /\ pending'[p] = NoPending
             /\ io'[p] = NoIo]_vars

\* C8 (amended): a save of a batch DAO instance built with a session_dao
\* whose session is absent or not active when the call checks it fails and
\* inserts no row.
C8_CheckedSaveRejectsInvalidSession ==
    [][\A p \in Procs :
          (/\ op[p].name \in SaveOps
           /\ op[p].dao
           /\ pc[p] = "entry" /\ pc'[p] \notin {"entry", "acquire_sleep"}
           /\ ~IsActive(sessions[op[p].sid]))
          => /\ pc'[p] = "idle"
             /\ result'[p] = RuntimeError
             /\ tables' = tables
             /\ pending'[p] = NoPending
             /\ io'[p] = NoIo]_vars

C8_Witness ==
    \E p \in Procs :
        /\ op[p].name \in SaveOps /\ op[p].dao
        /\ NValid(op[p]) > 0
        /\ pc[p] = "idle"
        /\ result[p] = RuntimeError
        /\ cur[p].checked
        /\ cur[p].session_data.status \in {"paused", "completed", "aborted"}
        /\ \A k \in Kinds : tables[k] = <<>>

C10_EveryEmptySaveReturnsZero ==
    [][\A p \in Procs :
          (/\ op[p].name \in SaveOps
           /\ Returns(p)
           /\ NValid(op[p]) = 0
           /\ cur'[p].checked
           /\ (op[p].dao => IsActive(cur'[p].session_data)))
          => /\ result'[p] = RetInt(0)
             /\ io'[p] = NoIo
             /\ tables' = tables]_vars

\* C10 (amended): a save of the sensor, emissions or carbon-stock DAO whose
\* session check passed or was skipped and whose payload has no valid
\* candidate returns 0 and performs no insert and no commit; the harvest-loss
\* DAO raises instead, also without insert or commit.
C10_CountingEmptySaveReturnsZero ==
    [][\A p \in Procs :
          (/\ op[p].name \in SaveOps
           /\ Returns(p)
           /\ NValid(op[p]) = 0
           /\ cur'[p].checked
           /\ (op[p].dao => IsActive(cur'[p].session_data)))
          => /\ result'[p] = IF op[p].name \in CountingSaves
                             THEN RetInt(0) ELSE RuntimeError
             /\ io'[p] = NoIo
             /\ tables' = tables
             /\ next_id' = next_id]_vars

C10_Witness ==
    \E p \in Procs :
        /\ op[p].name \in CountingSaves
        /\ pc[p] = "idle"
        /\ Len(op[p].payload) > 0 /\ NValid(op[p]) = 0
        /\ result[p] = RetInt(0)
        /\ io[p] = NoIo

\* C11: a batch save is atomic. Every step leaves a record table as it is or
\* appends to it, in one piece, all the valid rows of one save call that
\* returns in that step; a call that has ended, also one whose insert failed
\* part-way, has no uncommitted row left.
C11_BatchAtomic ==
    [][/\ \A k \in Kinds :
             \/ tables'[k] = tables[k]
             \/ \E p \in Procs :
                    /\ Returns(p)
                    /\ op[p].name \in SaveOps
                    /\ kind_of(op[p].name) = k
                    /\ result'[p].kind = "int"
                    /\ NValid(op[p]) > 0
                    /\ Inserts(op[p], NValid(op[p]))
       /\ \A p \in Procs :
             pc'[p] = "idle" => pending'[p] = NoPending]_vars

C11_Witness ==
    \E p \in Procs :
        /\ op[p].name \in SaveOps
        /\ pc[p] = "idle"
        /\ result[p] = RuntimeError
        /\ NValid(op[p]) = 2
        /\ io[p].inserts = 1 /\ io[p].commits = 0
        /\ next_id[kind_of(op[p].name)] = 2
        /\ tables[kind_of(op[p].name)] = <<>>
        /\ pending[p] = NoPending
\* the categories the classifier flags as recoverable
RecoverableCategories == {"CONNECTION", "RESOURCE", "TIMEOUT"}

\* C12: should_retry(error, attempt) is true exactly when attempt is less
\* than max_attempts and the category of the error is recoverable; so it is
\* false from max_attempts on and false for every non-recoverable error.
C12_ShouldRetry ==
    [][\A p \in Procs :
          (op[p].name = "should_retry" /\ Returns(p))
          => LET a == op[p].payload[1]
                 category == get_category(classify(a.code))
             IN /\ result'[p] =
                      RetBool(/\ a.attempt < max_attempts
                              /\ category \in RecoverableCategories)
                /\ a.attempt >= max_attempts => result'[p] = RetBool(FALSE)
                /\ category \notin RecoverableCategories
                      => result'[p] = RetBool(FALSE)]_vars

C12_Witness ==
    \E p \in Procs :
        /\ op[p].name = "should_retry" /\ pc[p] = "idle"
        /\ op[p].payload[1].code \in CONNECTION_ERRORS
        /\ op[p].payload[1].attempt = max_attempts
        /\ result[p] = RetBool(FALSE)

\* C16: the classifier gives every code one of the six categories, the one
\* whose list holds the code and UNKNOWN for a code outside the lists; the
\* error is recoverable exactly when the category is CONNECTION, RESOURCE or
\* TIMEOUT; ORA-12541 (no listener) is CONNECTION and recoverable, ORA-00001
\* (unique constraint) is CONSTRAINT and not recoverable.
C16_Classifier ==
    [][\A p \in Procs :
          (op[p].name = "to_dict" /\ Returns(p))
          => LET code == op[p].payload[1].code
                 category == result'[p].s
             IN /\ category \in {"CONNECTION", "RESOURCE", "TIMEOUT",
                                  "CONSTRAINT", "PERMISSION", "UNKNOWN"}
                /\ category = "CONNECTION" <=> code \in {3113, 3114, 12541,
                                                         12545, 12170, 12547}
                /\ category = "RESOURCE" <=> code \in {30, 1033, 1034, 1089,
                                                       4031}
                /\ category = "TIMEOUT" <=> code \in {1013, 12535, 12609}
                /\ category = "CONSTRAINT" <=> code \in {1, 2290, 2291, 2292,
                                                         2293}
                /\ category = "PERMISSION" <=> code \in {1031, 1017, 942}
                /\ code \in {60, 955, 1438, 1555} => category = "UNKNOWN"
                /\ result'[p].b <=> category \in RecoverableCategories
                /\ code = 12541 => category = "CONNECTION" /\ result'[p].b
                /\ code = 1 => category = "CONSTRAINT" /\ ~result'[p].b]_vars

C16_Witness ==
    \E p \in Procs :
        /\ op[p].name = "to_dict" /\ pc[p] = "idle"
        /\ op[p].payload[1].code = 1400
        /\ result[p].s = "UNKNOWN" /\ ~result[p].b
\* codes of the recoverable categories, among those func raises
RecoverableCodes ==
    {c \in FuncCodes : get_category(classify(c)) \in RecoverableCategories}

\* every invocation of p's finished call raised a recoverable store error
AlwaysRecoverable(p) ==
    /\ op[p].name = "func"
    /\ pc[p] = "idle"
    /\ Len(cur[p].raised) = invocations[p]
    /\ \A i \in 1..Len(cur[p].raised) : cur[p].raised[i] \in RecoverableCodes

\* C13: a function wrapped by with_retry that raises a Connection, Resource
\* or Timeout error on every invocation is invoked exactly max_attempts
\* times and the wrapper then raises RuntimeError; and every call of the
\* wrapper ends
C13_RetriesThenFails ==
    /\ [](\A p \in Procs :
            AlwaysRecoverable(p) =>
                /\ invocations[p] = max_attempts
                /\ result[p] = RuntimeError)
    /\ \A p \in Procs : (pc[p] # "idle") ~> (pc[p] = "idle")

C13_Witness ==
    \E p \in Procs :
        /\ AlwaysRecoverable(p)
        /\ cur[p].raised = <<12541, 4031, 1013>>
        /\ result[p] = RuntimeError

\* in this step an invocation of func by p raises a store error that is
\* not recoverable
RaisesNonRecoverable(p) ==
    /\ op[p].name = "func"
    /\ pc[p] = "entry"
    /\ Len(cur'[p].raised) = Len(cur[p].raised) + 1
    /\ cur'[p].raised[Len(cur'[p].raised)] \in FuncCodes \ RecoverableCodes

\* C14: when the wrapped function raises a Constraint, Permission or
\* Unknown store error, the wrapper raises RuntimeError at once: it does not
\* sleep and does not invoke the function again
C14_NonRecoverableNoRetry ==
    [][\A p \in Procs :
          RaisesNonRecoverable(p) =>
              /\ pc'[p] = "idle"
              /\ result'[p] = RuntimeError
              /\ invocations'[p] = invocations[p]]_vars

C14_Witness ==
    \E p \in Procs :
        /\ op[p].name = "func"
        /\ pc[p] = "idle"
        /\ cur[p].raised = <<942>>
        /\ invocations[p] = 1
        /\ result[p] = RuntimeError
\* C15: when the store raises a recoverable error inside a DAO operation
\* that carries with_retry, the wrapper goes on to invoke the operation
\* again as long as fewer than max_attempts invocations were made
C15_StoreErrorReinvokes ==
    [][\A p \in Procs :
          /\ op[p].name \in SessionOps \cup SaveOps
          /\ pc[p] # "idle"
          /\ pc'[p] # pc[p]
          /\ faults' = faults + 1
          /\ StoreCodes \subseteq RECOVERABLE_ERRORS
          /\ invocations[p] < max_attempts
          => pc'[p] = "sleep"]_vars
\* the operations of SessionDAO that carry with_error_handling
DecoratedOps == SessionOps \cup {"validate_session"}

\* p's conditional UPDATE meets a version another writer has advanced
VersionConflict(p) ==
    /\ op[p].name \in Transitions
    /\ pc[p] = "write"
    /\ faults' = faults
    /\ sessions[op[p].sid].version # cur[p].version

C18_ConnectionReleased ==
    \A p \in Procs :
        /\ conn[p].held \in {0, 1}
        /\ conn[p].acquired = conn[p].released + conn[p].held
        /\ pc[p] \in {"idle", "entry", "sleep", "acquire_sleep"}
              => conn[p].held = 0
        /\ pc[p] \in {"write", "commit"} => conn[p].held = 1

C18_Witness ==
    \E p, q \in Procs :
        /\ op[p].name = "update_status"
        /\ pc[p] = "idle"
        /\ result[p] = RuntimeError
        /\ cur[p].version > 0
        /\ conn[p] = [held |-> 0, acquired |-> 1, released |-> 1,
                      retries |-> 0]
        /\ op[q].name = "create_session"
        /\ pc[q] = "idle"
        /\ result[q] = RetStr(op[q].sid)
        /\ conn[q] = conn[p]
Sleeping == {"sleep", "acquire_sleep"}

SchemaStep(p) ==
    /\ op[p].name \in SchemaOps
    /\ pc[p] = "ddl"
    /\ cur'[p].todo # cur[p].todo

\* C20: no step of a schema initialization changes the rows of a table,
\* and an initialization that runs alone on a store that raises no error
\* returns True with all five tables in place
C20_SchemaInitNonDestructive ==
    [][\A p \in Procs :
          /\ SchemaStep(p) =>
                /\ sessions' = sessions
                /\ tables' = tables
          /\ (/\ op[p].name \in SchemaOps
              /\ pc[p] = "ddl" /\ pc'[p] = "idle"
              /\ faults' = 0
              /\ \A q \in Procs \ {p} : op[q] = NoOp)
             => /\ result'[p] = RetBool(TRUE)
                /\ schema'.tables = TableNames]_vars
\* the store raises an error other than ORA-00955 on the CREATE statement
\* p executes in this step
CreateFails(p) ==
    /\ op[p].name \in SchemaOps
    /\ pc[p] = "ddl"
    /\ Len(cur'[p].raised) = Len(cur[p].raised) + 1
    /\ Head(cur[p].todo).stmt \in {"CREATE TABLE", "CREATE INDEX"}

\* C21: when a CREATE TABLE or CREATE INDEX of a schema initialization
\* fails with another error than "name already used", the routine goes on
\* with the statements that remain, and when it returns it returns False
C21_FailureDoesNotStopTheRest ==
    [][\A p \in Procs :
          /\ CreateFails(p) =>
                /\ pc'[p] = "ddl"
                /\ cur'[p].todo = Tail(cur[p].todo)
          /\ (/\ op[p].name \in SchemaOps
              /\ pc[p] = "ddl" /\ pc'[p] = "idle"
              /\ \E i \in DOMAIN cur'[p].raised :
                    cur'[p].raised[i].stmt \in {"CREATE TABLE", "CREATE INDEX"})
             => result'[p] = RetBool(FALSE)]_vars
\* the arguments of call o are ones the real store would accept
ValidArguments(o) ==
    /\ o.name = "update_status" => o.status \in valid_statuses
    /\ o.name = "end_session" => o.status \in end_valid_statuses
    /\ o.name = "save_harvest_loss_data" => ~harvest_rejected(o.payload)

\* C22: on a connector in simulated mode every call with valid arguments
\* succeeds and leaves the store untouched: no call ends with RuntimeError,
\* create_session returns its id and validate_session returns True
C22_SimulatedModeSucceeds ==
    \A p \in Procs :
        (/\ connector.simulated_mode
         /\ pc[p] = "idle"
         /\ op[p].name # "none"
         /\ ValidArguments(op[p]))
        => /\ result[p] # RuntimeError
           /\ op[p].name = "create_session" => result[p] = RetStr(op[p].sid)
           /\ op[p].name = "validate_session" => result[p] = RetBool(TRUE)
           /\ sessions = [s \in Ids |-> NoRow]
           /\ tables = [k \in Kinds |-> <<>>]
\* C23: a create_session that ends while a row with its id is in the
\* table fails (RuntimeError) and leaves the table as it is; one that
\* returns the id has inserted the row, with version 1, where none was; so
\* two creates of one id never both return it
C23_DuplicateCreateFails ==
    [][\A p \in Procs :
          (op[p].name = "create_session" /\ Returns(p))
          => /\ sessions[op[p].sid] # NoRow
                  => result'[p] = RuntimeError /\ sessions' = sessions
             /\ result'[p] # RuntimeError
                  => /\ result'[p] = RetStr(op[p].sid)
                     /\ sessions[op[p].sid] = NoRow
                     /\ sessions'[op[p].sid] = create_query(clock)
                     /\ \A s \in Ids \ {op[p].sid} :
                            sessions'[s] = sessions[s]
             /\ \A q \in Procs \ {p} :
                    (op[q] = op[p] /\ pc[q] = "idle"
                        /\ result[q] = RetStr(op[q].sid))
                    => result'[p] = RuntimeError]_vars

C23_Witness ==
    \E p, q \in Procs :
        /\ op[p].name = "create_session" /\ op[q] = op[p]
        /\ pc[p] = "idle" /\ pc[q] = "idle"
        /\ result[p] = RetStr(op[p].sid)
        /\ result[q] = RuntimeError
        /\ io[q].inserts = 0
        /\ faults = 0
        /\ sessions[op[p].sid].version = 1
\* C24: get_delay(attempt) is min(max_delay, initial_delay *
\* backoff_factor^attempt) * jitter for every attempt and every jitter in
\* [0.8, 1.2], and so at least 0.8 times and at most 1.2 times max_delay
\* once the backoff has reached max_delay, and never more than that
C24_DelayBounded ==
    \A p \in Procs :
        (op[p].name = "get_delay" /\ pc[p] = "idle")
        => LET a == op[p].payload[1].attempt
               j == op[p].payload[1].code
               backoff == initial_delay * Pow(backoff_factor, a)
           IN /\ result[p].kind = "int"
              /\ backoff <= max_delay => result[p].n = backoff * j
              /\ backoff > max_delay => result[p].n = max_delay * j
              /\ result[p].n <= max_delay * 1200

C24_Witness ==
    \E p \in Procs :
        /\ op[p].name = "get_delay" /\ pc[p] = "idle"
        /\ op[p].payload[1].attempt = 5
        /\ op[p].payload[1].code = 1200
        /\ result[p] = RetInt(max_delay * 1200)
C26_JsonSessionLifecycle ==
    [][/\ \A p \in Procs :
            /\ (op[p].name = "JsonManager.create_session" /\ Returns(p))
               => /\ result'[p].kind = "str"
                  /\ json'.files[result'[p].s] =
                        [status |-> "active", end_timestamp |-> Null]
            /\ (op[p].name = "JsonManager.end_session" /\ Returns(p)
                   /\ op[p].sid # None)
               => IF json.files[op[p].sid] = NoFile
                  THEN result'[p] = RetBool(FALSE) /\ json' = json
                  ELSE /\ result'[p] = RetBool(TRUE)
                       /\ json'.files[op[p].sid].status = "completed"
                       /\ json'.files[op[p].sid].end_timestamp # Null
       /\ \A s \in Ids :
            json'.files[s] # NoFile
            => (json'.files[s].end_timestamp # Null
                  <=> json'.files[s].status = "completed")]_vars

C26_Witness ==
    \E p, q \in Procs, s \in Ids :
        /\ op[p].name = "JsonManager.end_session" /\ op[p].sid = s
        /\ pc[p] = "idle" /\ result[p] = RetBool(TRUE)
        /\ json.files[s].status = "completed"
        /\ json.files[s].end_timestamp # Null
        /\ op[q].name = "JsonManager.end_session" /\ op[q].sid \in Ids \ {s}
        /\ pc[q] = "idle" /\ result[q] = RetBool(FALSE)
        /\ json.files[op[q].sid] = NoFile
\* C27: pool acquisition follows the retry policy: a failed acquire is
\* tried again only when its error is recoverable, an error that is not
\* recoverable ends the block after that one attempt, and no block makes
\* more than max_attempts acquire attempts
C27_AcquireFollowsRetryPolicy ==
    [][\A p \in Procs :
         (/\ pc[p] \in {"entry", "insert"}
          /\ Len(cur'[p].raised) = Len(cur[p].raised) + 1)
         => LET code == cur'[p].raised[Len(cur'[p].raised)]
                recoverable ==
                    get_category(classify(code)) \in RecoverableCategories
            IN /\ pc'[p] = "acquire_sleep"
                    => recoverable /\ conn'[p].retries + 1 <= max_attempts
               /\ ~recoverable => pc'[p] # "acquire_sleep"]_vars
\* C28: whatever end_session or update_status does beside a batch save of
\* a DAO that checks the session, the rows of the save are committed only
\* while the session is active: at the commit of the insert the session is
\* not 'completed', 'aborted' or 'paused'
C28_RowsOnlyWhileActive ==
    [][\A p \in Procs :
         (/\ op[p].name \in SaveOps /\ op[p].dao
          /\ pc[p] = "commit" /\ pc'[p] # "commit"
          /\ tables' # tables)
         => IsActive(sessions[op[p].sid])]_vars
\* C29: save_harvest_loss_data returns the id of the row this call
\* inserted, whatever another save_harvest_loss_data for the same session
\* inserts and commits meanwhile
C29_ReturnsOwnRowId ==
    [][\A p \in Procs :
         (/\ op[p].name = "save_harvest_loss_data"
          /\ pc[p] = "commit" /\ pc'[p] = "idle"
          /\ tables' # tables)
         => result'[p] = RetInt(pending[p].rows[1].id)]_vars
\* C30: outside simulated mode, after any sequence of initialize and
\* shutdown calls, failed ones included, the connector is marked
\* initialized exactly when it holds a pool: a failed initialize leaves no
\* pool, a successful shutdown leaves neither the mark nor a pool
C30_InitializedIffPool ==
    ~connector.simulated_mode
    => /\ connector.initialized <=> connector.pool
       /\ \A p \in Procs :
            (op[p].name = "shutdown" /\ pc[p] = "idle"
                /\ result[p] = RetBool(TRUE)
                /\ \A q \in Procs \ {p} : pc[q] = "idle" /\ op[q].name # "initialize")
            => ~connector.initialized /\ ~connector.pool
====
